---- MODULE Spec2Model ----
(***************************************************************************)
(* Model of the event router API: the StreamManager broadcaster            *)
(* (api/stream_manager.py), the producer side StreamlitEventLogger         *)
(* (utils/event_logger.py), the GET /stream endpoint (api/routes/events.py)*)
(* and the generation pipeline (api/routes/project.py).                    *)
(*                                                                         *)
(* Python strings are sequences of atoms; the atom ":" is the only one     *)
(* that contains a colon, so str.split(":", 2) is computed on the atoms.   *)
(***************************************************************************)
EXTENDS Integers, Sequences, FiniteSets, TLC

\* ------------------------------------------------------------------ bounds
MaxEvents == 2
MaxSubs == 2
MaxKeepalives == 1
MaxHistoryRun == 1002
MaxHandoff == 1
MaxRuns == 1
MaxQuestions == 1
MaxConnections == 1

\* ------------------------------------------------------- program constants
HistoryLimit == 1000

\* ---------------------------------------------------------- python values
None == <<"<None>">>

Truthy(s) == s # None /\ s # <<>>

PyOr(a, b) == IF Truthy(a) THEN a ELSE b

LowerAtom(a) ==
    CASE a = "Gemini" -> "gemini"
      [] a = "Claude" -> "claude"
      [] a = "GPT" -> "gpt"
      [] a = "Anthropic" -> "anthropic"
      [] a = "CLAUDE" -> "claude"
      [] a = "OpenAI" -> "openai"
      [] a = "Complex" -> "complex"
      [] OTHER -> a

Lower(s) == [i \in DOMAIN s |-> LowerAtom(s[i])]

\* index of the first ":" of s, 0 when there is none
RECURSIVE FindColon(_, _)
FindColon(s, i) ==
    IF i > Len(s) THEN 0
    ELSE IF s[i] = ":" THEN i
    ELSE FindColon(s, i + 1)

\* str.split(":", maxsplit)
RECURSIVE SplitColon(_, _)
SplitColon(s, maxsplit) ==
    LET i == FindColon(s, 1) IN
    IF maxsplit = 0 \/ i = 0 THEN << s >>
    ELSE << SubSeq(s, 1, i - 1) >> \o SplitColon(SubSeq(s, i + 1, Len(s)), maxsplit - 1)

Star == << "*" >>

\* ------------------------------------------------------------ input sets
Subs == 1 .. MaxSubs

\* the filter triples (project_id, conversation_id, model_name) subscribers use
Filters ==
    { << None, None, None >>,
      << << "p1" >>, None, None >>,
      << << "p1" >>, << "c1" >>, None >>,
      << None, None, << "gemini" >> >> }

TerminalTypes == { "stream.complete", "stream.failed" }

\* the envelopes the producers hand to log_event (EventEnvelope.to_dict())
Envelopes ==
    { [event_type |-> "chat.message", project_id |-> << "p1" >>,
       conversation_id |-> << "c1" >>, payload_model_name |-> << "Gemini" >>],
      [event_type |-> "stream.failed", project_id |-> << "p2" >>,
       conversation_id |-> << "c1" >>, payload_model_name |-> << "Claude" >>],
      [event_type |-> "chat.message", project_id |-> None,
       conversation_id |-> None, payload_model_name |-> None],
      [event_type |-> "stream.complete", project_id |-> << "p1" >>,
       conversation_id |-> << "c2" >>, payload_model_name |-> None] }

NoEvent ==
    [event_id |-> 0, event_type |-> "", project_id |-> None,
     conversation_id |-> None, model_name |-> None, payload_model_name |-> None]

\* the threads that call get_stream_manager: the event loop's thread, on which
\* the handlers run (api/routes/events.py), and the threads of the code that
\* logs events through StreamlitEventLogger.log_event
MaxThreads == 3
Threads == 1 .. MaxThreads

\* calls of get_stream_manager one thread makes
MaxGetCalls == 2

\* _stream_manager before the first call
NoManager == 0

\* ----------------------------------------------------------------- state
VARIABLES
    host,              \* "main": the process api/main.py builds; "task": one that schedules the processor
    processor_task,    \* StreamManager._processor_task: "none" or "running"
    streams,           \* StreamManager._streams: registry key -> list of queues
    all_events,        \* StreamManager._all_events: the history buffer
    sync_event_queue,  \* StreamManager._sync_event_queue: the handoff queue
    queues,            \* content of each subscriber's asyncio.Queue
    sub_pc,            \* where each subscriber / stream connection stands
    sub_filter,        \* (project_id, conversation_id, model_name) of each subscriber
    sub_hist,          \* historical events a connection still has to replay
    frames,            \* the frames each stream connection has emitted
    keepalives,        \* keepalive frames emitted so far
    next_event_id,     \* number of events created so far
    published          \* the events broadcast_event was called with, in call order

\* one pipeline run at a time: generate_project or modify_project
VARIABLES
    run_pc,            \* where the handler stands ("idle" before, "done" after a run)
    run_kind,          \* "generate" or "modify"
    run_family,        \* request.model_family
    run_model,         \* webpage_model / mod_model
    run_events,        \* the events the run has emitted, in order
    run_calls,         \* the generation calls the run has issued, in order
    run_outcomes,      \* what each call that has ended did, in order
    run_result,        \* "none" while running, then how the run ended
    runs_started       \* number of runs started so far

\* one call into the model layer (provider adapters, router) at a time
VARIABLES
    call,              \* the call made last: the function and its arguments
    result,            \* what it returned, or that it raised
    provider_calls     \* the models the provider API was called with during it, in order

\* the module global of api/stream_manager.py and the threads that ask for it
VARIABLES
    stream_manager,    \* _stream_manager: NoManager (None) or the instance it holds
    managers,          \* number of StreamManager instances constructed so far
    getter_pc,         \* where each thread stands inside get_stream_manager
    getter_got,        \* what get_stream_manager returned to each thread last
    getter_calls       \* number of get_stream_manager calls each thread has made

lvars == << call, result, provider_calls >>

gvars == << stream_manager, managers, getter_pc, getter_got, getter_calls >>

bvars == << host, processor_task, streams, all_events, sync_event_queue, queues,
            sub_pc, sub_filter, sub_hist, frames, keepalives, next_event_id, published >>

connvars == << host, processor_task, streams, all_events, queues, sub_pc, sub_filter,
               sub_hist, frames, keepalives, published, lvars, gvars >>

runvars == << run_pc, run_kind, run_family, run_model, run_events, run_calls, run_outcomes,
              run_result, runs_started >>

pvars == << runvars, lvars, gvars >>

vars == << bvars, pvars >>

\* ------------------------------------------------ StreamManager operations
get_stream_key(project_id, conversation_id, model_name) ==
    PyOr(project_id, Star) \o << ":" >> \o PyOr(conversation_id, Star)
        \o << ":" >> \o PyOr(model_name, Star)

\* mutant: register_stream starts the key's list anew
register_stream_replacing(reg, q, project_id, conversation_id, model_name) ==
    LET stream_key == get_stream_key(project_id, conversation_id, model_name) IN
    [k \in DOMAIN reg \cup { stream_key } |-> IF k = stream_key THEN << q >> ELSE reg[k]]

register_stream(reg, q, project_id, conversation_id, model_name) ==
    LET stream_key == get_stream_key(project_id, conversation_id, model_name) IN
    IF stream_key \in DOMAIN reg
    THEN [reg EXCEPT ![stream_key] = Append(@, q)]
    ELSE reg @@ (stream_key :> << q >>)

\* list.remove(q): drops the first occurrence
RemoveFirst(list, q) ==
    LET i == CHOOSE j \in DOMAIN list : list[j] = q /\ \A k \in 1 .. (j - 1) : list[k] # q
    IN SubSeq(list, 1, i - 1) \o SubSeq(list, i + 1, Len(list))

\* mutant: unregister_stream drops the whole list of the key
unregister_stream_dropping_key(reg, project_id, conversation_id, q, model_name) ==
    LET stream_key == get_stream_key(project_id, conversation_id, model_name) IN
    [k \in DOMAIN reg \ { stream_key } |-> reg[k]]

\* mutant: unregister_stream leaves the registry as it was
unregister_stream_keeping(reg, project_id, conversation_id, q, model_name) == reg

\* mutant: a list that became empty stays in the registry
unregister_stream_keeping_empty(reg, project_id, conversation_id, q, model_name) ==
    LET stream_key == get_stream_key(project_id, conversation_id, model_name) IN
    IF stream_key \notin DOMAIN reg THEN reg
    ELSE IF \A j \in DOMAIN reg[stream_key] : reg[stream_key][j] # q THEN reg
    ELSE [reg EXCEPT ![stream_key] = RemoveFirst(reg[stream_key], q)]

\* mutant: the queue is removed from whatever key lists it
unregister_stream_any_key(reg, project_id, conversation_id, q, model_name) ==
    LET kept == { k \in DOMAIN reg : \E j \in DOMAIN reg[k] : reg[k][j] # q } IN
    [k \in kept |-> SelectSeq(reg[k], LAMBDA x : x # q)]

unregister_stream(reg, project_id, conversation_id, q, model_name) ==
    LET stream_key == get_stream_key(project_id, conversation_id, model_name) IN
    IF stream_key \notin DOMAIN reg THEN reg
    ELSE IF \A j \in DOMAIN reg[stream_key] : reg[stream_key][j] # q THEN reg
    ELSE LET rest == RemoveFirst(reg[stream_key], q) IN
         IF rest = << >>
         THEN [k \in DOMAIN reg \ { stream_key } |-> reg[k]]
         ELSE [reg EXCEPT ![stream_key] = rest]

EventModelName(event) == PyOr(event.model_name, event.payload_model_name)

KeyPart(parts, i) == IF Len(parts) > i - 1 THEN parts[i] ELSE Star

\* mutant: the model family is compared without lower()
KeyMatchesCaseSensitive(stream_key, event) ==
    LET parts == SplitColon(stream_key, 2)
        project_id == KeyPart(parts, 1)
        conversation_id == KeyPart(parts, 2)
        model_filter == KeyPart(parts, 3)
    IN  /\ ~(project_id # Star /\ event.project_id # project_id)
        /\ ~(conversation_id # Star /\ event.conversation_id # conversation_id)
        /\ ~(/\ model_filter # Star
             /\ Truthy(EventModelName(event))
             /\ EventModelName(event) # model_filter)

\* mutant: the project_id test is left out
KeyMatchesAnyProject(stream_key, event) ==
    LET parts == SplitColon(stream_key, 2)
        conversation_id == KeyPart(parts, 2)
        model_filter == KeyPart(parts, 3)
    IN  /\ ~(conversation_id # Star /\ event.conversation_id # conversation_id)
        /\ ~(/\ model_filter # Star
             /\ Truthy(EventModelName(event))
             /\ Lower(EventModelName(event)) # Lower(model_filter))

\* mutant: '*' is compared like an id instead of being a wildcard
KeyMatchesNoWildcard(stream_key, event) ==
    LET parts == SplitColon(stream_key, 2)
        project_id == KeyPart(parts, 1)
        conversation_id == KeyPart(parts, 2)
        model_filter == KeyPart(parts, 3)
    IN  /\ event.project_id = project_id
        /\ ~(conversation_id # Star /\ event.conversation_id # conversation_id)
        /\ ~(/\ model_filter # Star
             /\ Truthy(EventModelName(event))
             /\ Lower(EventModelName(event)) # Lower(model_filter))

\* the filter test of broadcast_event for one registry key
KeyMatches(stream_key, event) ==
    LET parts == SplitColon(stream_key, 2)
        project_id == KeyPart(parts, 1)
        conversation_id == KeyPart(parts, 2)
        model_filter == KeyPart(parts, 3)
    IN  /\ ~(project_id # Star /\ event.project_id # project_id)
        /\ ~(conversation_id # Star /\ event.conversation_id # conversation_id)
        /\ ~(/\ model_filter # Star
             /\ Truthy(EventModelName(event))
             /\ Lower(EventModelName(event)) # Lower(model_filter))

\* mutant: the buffer is never trimmed
AppendHistoryUnbounded(buffer, event) == Append(buffer, event)

\* broadcast_event: append to _all_events and keep the last 1000
AppendHistory(buffer, event) ==
    LET appended == Append(buffer, event) IN
    IF Len(appended) > HistoryLimit
    THEN SubSeq(appended, Len(appended) - HistoryLimit + 1, Len(appended))
    ELSE appended

Count(list, q) == Cardinality({ j \in DOMAIN list : list[j] = q })

RECURSIVE PutsFor(_, _, _, _)
PutsFor(reg, keys, q, event) ==
    IF keys = { } THEN 0
    ELSE LET k == CHOOSE x \in keys : TRUE IN
         (IF KeyMatches(k, event) THEN Count(reg[k], q) ELSE 0)
             + PutsFor(reg, keys \ { k }, q, event)

Repeat(event, n) == [j \in 1 .. n |-> event]

\* the queues after the fan-out loop of broadcast_event
Deliver(reg, qs, event) ==
    [q \in DOMAIN qs |-> qs[q] \o Repeat(event, PutsFor(reg, DOMAIN reg, q, event))]

\* mutant: the history is returned newest first
get_historical_events_newest_first(buffer, project_id, conversation_id, model_name) ==
    LET Keep(event) ==
            /\ ~(Truthy(project_id) /\ event.project_id # project_id)
            /\ ~(Truthy(conversation_id) /\ event.conversation_id # conversation_id)
            /\ ~(/\ Truthy(model_name)
                 /\ Truthy(EventModelName(event))
                 /\ Lower(EventModelName(event)) # Lower(model_name))
        kept == SelectSeq(buffer, Keep)
    IN [i \in 1..Len(kept) |-> kept[Len(kept) + 1 - i]]

get_historical_events(buffer, project_id, conversation_id, model_name) ==
    LET Keep(event) ==
            /\ ~(Truthy(project_id) /\ event.project_id # project_id)
            /\ ~(Truthy(conversation_id) /\ event.conversation_id # conversation_id)
            /\ ~(/\ Truthy(model_name)
                 /\ Truthy(EventModelName(event))
                 /\ Lower(EventModelName(event)) # Lower(model_name))
    IN SelectSeq(buffer, Keep)

\* StreamlitEventLogger.log_event: the dict that goes on the handoff queue
EventDict(envelope, id) ==
    [event_id |-> id,
     event_type |-> envelope.event_type,
     project_id |-> envelope.project_id,
     conversation_id |-> envelope.conversation_id,
     model_name |-> IF Truthy(envelope.payload_model_name)
                    THEN envelope.payload_model_name ELSE None,
     payload_model_name |-> envelope.payload_model_name]

\* ------------------------------------------------------------------ frames
\* a frame as written to the connection; "from" records which loop yielded it
DataFrame(event, from) == [kind |-> "data", event |-> event, from |-> from]
DoneFrame == [kind |-> "done", event |-> NoEvent, from |-> "live"]
\* mutant: the timeout yields a data frame
KeepaliveAsDataFrame == [kind |-> "data", event |-> NoEvent, from |-> "live"]

KeepaliveFrame == [kind |-> "keepalive", event |-> NoEvent, from |-> "live"]
ErrorFrame == [kind |-> "error", event |-> NoEvent, from |-> "except"]

\* webpage_model / mod_model before the handler has chosen one
NoModel == "<None>"

\* ------------------------------------------------------------------- init
\* ------------------------------------------------------------ JSON values
\* a value as json.loads returns it: a dict holds its keys and, at the same
\* positions, their values; a list holds its elements; a scalar its text
JNull == [kind |-> "null", keys |-> << >>, vals |-> << >>, atom |-> ""]

JNum(n) == [kind |-> "num", keys |-> << >>, vals |-> << >>, atom |-> n]

JStr(t) == [kind |-> "str", keys |-> << >>, vals |-> << >>, atom |-> t]

JList(elements) == [kind |-> "list", keys |-> << >>, vals |-> elements, atom |-> ""]

JDict(keys, vals) == [kind |-> "dict", keys |-> keys, vals |-> vals, atom |-> ""]

IsDict(v) == v.kind = "dict"

IsList(v) == v.kind = "list"

\* key in d
Has(d, key) == \E i \in DOMAIN d.keys : d.keys[i] = key

\* d[key]
Get(d, key) == d.vals[CHOOSE i \in DOMAIN d.keys : d.keys[i] = key]

\* len(v) raises TypeError for None, a number, a boolean
Sized(v) == v.kind \in { "dict", "list", "str" }

\* before the first call into the model layer
NoCall ==
    [fn |-> "", family |-> None, complexity |-> None, operation_type |-> "",
     outcomes |-> << >>,
     input |-> JNull]

NoResult == [value |-> NoModel, raised |-> FALSE]

Init ==
    /\ host \in { "main", "task" }
    /\ processor_task = "none"
    /\ streams = << >>
    /\ all_events = << >>
    /\ sync_event_queue = << >>
    /\ queues = [s \in Subs |-> << >>]
    /\ sub_pc = [s \in Subs |-> "idle"]
    /\ sub_filter = [s \in Subs |-> << None, None, None >>]
    /\ sub_hist = [s \in Subs |-> << >>]
    /\ frames = [s \in Subs |-> << >>]
    /\ keepalives = 0
    /\ next_event_id = 0
    /\ published = << >>
    /\ run_pc = "idle"
    /\ run_kind = "none"
    /\ run_family = None
    /\ run_model = NoModel
    /\ run_events = << >>
    /\ run_calls = << >>
    /\ run_outcomes = << >>
    /\ run_result = "none"
    /\ runs_started = 0
    /\ call = NoCall
    /\ result = NoResult
    /\ provider_calls = << >>
    /\ stream_manager = NoManager
    /\ managers = 0
    /\ getter_pc = [t \in Threads |-> "idle"]
    /\ getter_got = [t \in Threads |-> NoManager]
    /\ getter_calls = [t \in Threads |-> 0]

\* ---------------------------------------------------------------- actions
\* generate_project and modify_project are coroutines without an await: from
\* the first line of a run to its last the event loop runs nothing else, no
\* task and no other handler or generator
LoopFree == run_pc \in { "idle", "done" }

\* A host other than api/main.py schedules _process_sync_event_queue as a task.
StartProcessor ==
    /\ LoopFree
    /\ host = "task"
    /\ processor_task = "none"
    /\ processor_task' = "running"
    /\ UNCHANGED pvars
    /\ UNCHANGED << host, streams, all_events, sync_event_queue, queues, sub_pc,
                    sub_filter, sub_hist, frames, keepalives, next_event_id, published >>

\* StreamlitEventLogger.log_event(event)
LogEventUpTo(envelope, limit) ==
    /\ next_event_id < limit
    /\ next_event_id' = next_event_id + 1
    /\ sync_event_queue' = Append(sync_event_queue, EventDict(envelope, next_event_id + 1))
    /\ UNCHANGED pvars
    /\ UNCHANGED << host, processor_task, streams, all_events, queues, sub_pc,
                    sub_filter, sub_hist, frames, keepalives, published >>

LogEvent(envelope) == LogEventUpTo(envelope, MaxEvents)

\* mutant: the handoff queue hands out the newest event first
DequeueNewest(handoff) == << handoff[Len(handoff)], SubSeq(handoff, 1, Len(handoff) - 1) >>

\* queue.Queue.get(): the oldest event and what stays queued
Dequeue(handoff) == << Head(handoff), Tail(handoff) >>

\* one turn of the loop of _process_sync_event_queue that finds an event:
\* get() from the handoff queue, then broadcast_event(event)
ProcessSyncEventQueue ==
    /\ LoopFree
    /\ processor_task = "running"
    /\ sync_event_queue # << >>
    /\ LET event == Dequeue(sync_event_queue)[1] IN
        /\ sync_event_queue' = Dequeue(sync_event_queue)[2]
        /\ all_events' = AppendHistory(all_events, event)
        /\ queues' = Deliver(streams, queues, event)
        /\ published' = Append(published, event)
    /\ UNCHANGED pvars
    /\ UNCHANGED << host, processor_task, streams, sub_pc, sub_filter, sub_hist,
                    frames, keepalives, next_event_id >>

\* mutant: the first put that raises ends the fan-out loop for everyone
DeliverAbortingOnFailure(reg, qs, event, failing) ==
    IF failing # { } THEN qs ELSE Deliver(reg, qs, event)

\* the queues after the fan-out loop when put() raises on the queues in
\* `failing`: the except clause logs the error and the loop goes on
DeliverWithFailures(reg, qs, event, failing) ==
    [q \in DOMAIN qs |-> IF q \in failing THEN qs[q] ELSE Deliver(reg, qs, event)[q]]

\* one turn of the processor loop in which put() raises for some subscribers
ProcessSyncEventQueueFailing(failing) ==
    /\ LoopFree
    /\ processor_task = "running"
    /\ sync_event_queue # << >>
    /\ failing # { }
    /\ \A q \in failing : \E k \in DOMAIN streams : Count(streams[k], q) > 0
    /\ LET event == Dequeue(sync_event_queue)[1] IN
        /\ sync_event_queue' = Dequeue(sync_event_queue)[2]
        /\ all_events' = AppendHistory(all_events, event)
        /\ queues' = DeliverWithFailures(streams, queues, event, failing)
        /\ published' = Append(published, event)
    /\ UNCHANGED pvars
    /\ UNCHANGED << host, processor_task, streams, sub_pc, sub_filter, sub_hist,
                    frames, keepalives, next_event_id >>

\* -------------------------------------------- subscribers and connections
IsTerminal(event) == event.event_type \in TerminalTypes

\* a caller of the StreamManager API registers with a full filter triple
RegisterStream(s, project_id, conversation_id, model_name) ==
    /\ LoopFree
    /\ sub_pc[s] = "idle"
    /\ \A t \in Subs : t < s => sub_pc[t] # "idle"
    /\ streams' = register_stream(streams, s, project_id, conversation_id, model_name)
    /\ sub_filter' = [sub_filter EXCEPT ![s] = << project_id, conversation_id, model_name >>]
    /\ sub_pc' = [sub_pc EXCEPT ![s] = "api"]
    /\ UNCHANGED pvars
    /\ UNCHANGED << host, processor_task, all_events, sync_event_queue, queues,
                    sub_hist, frames, keepalives, next_event_id, published >>

\* ... and unregisters with the same triple
UnregisterStream(s) ==
    /\ LoopFree
    /\ sub_pc[s] = "api"
    /\ streams' = unregister_stream(streams, sub_filter[s][1], sub_filter[s][2], s,
                                    sub_filter[s][3])
    /\ sub_pc' = [sub_pc EXCEPT ![s] = "closed"]
    /\ UNCHANGED pvars
    /\ UNCHANGED << host, processor_task, all_events, sync_event_queue, queues,
                    sub_filter, sub_hist, frames, keepalives, next_event_id, published >>

\* unregister_stream called for a queue that is not registered: once more
\* after it was removed, or for a queue that never was registered
UnregisterStreamAgain(s, project_id, conversation_id, model_name) ==
    /\ LoopFree
    /\ sub_pc[s] \in { "idle", "closed" }
    /\ \A t \in Subs : t < s => sub_pc[t] # "idle"
    /\ streams' = unregister_stream(streams, project_id, conversation_id, s, model_name)
    /\ sub_pc' = [sub_pc EXCEPT ![s] = "closed_again"]
    /\ UNCHANGED pvars
    /\ UNCHANGED << host, processor_task, all_events, sync_event_queue, queues,
                    sub_filter, sub_hist, frames, keepalives, next_event_id, published >>

\* GET /stream: the handler body registers the queue (without model_name) and
\* returns the StreamingResponse; event_generator has not run yet
StreamEvents(s, project_id, conversation_id, model_name) ==
    /\ LoopFree
    /\ sub_pc[s] = "idle"
    /\ \A t \in Subs : t < s => sub_pc[t] # "idle"
    /\ streams' = register_stream(streams, s, project_id, conversation_id, None)
    /\ sub_filter' = [sub_filter EXCEPT ![s] = << project_id, conversation_id, model_name >>]
    /\ sub_pc' = [sub_pc EXCEPT ![s] = "registered"]
    /\ UNCHANGED pvars
    /\ UNCHANGED << host, processor_task, all_events, sync_event_queue, queues,
                    sub_hist, frames, keepalives, next_event_id, published >>

\* the finally clause of event_generator
Cleanup(reg, s) == unregister_stream(reg, sub_filter[s][1], sub_filter[s][2], s, None)

\* first step of event_generator: read the history, yield its first frame
GeneratorStart(s) ==
    /\ LoopFree
    /\ sub_pc[s] = "registered"
    /\ LET historical_events ==
               get_historical_events(all_events, sub_filter[s][1], sub_filter[s][2],
                                     sub_filter[s][3])
       IN IF historical_events = << >>
          THEN /\ sub_pc' = [sub_pc EXCEPT ![s] = "live"]
               /\ UNCHANGED << sub_hist, frames >>
          ELSE /\ sub_pc' = [sub_pc EXCEPT ![s] = "replay"]
               /\ frames' = [frames EXCEPT ![s] = Append(@, DataFrame(Head(historical_events), "history"))]
               /\ sub_hist' = [sub_hist EXCEPT ![s] = Tail(historical_events)]
    /\ UNCHANGED pvars
    /\ UNCHANGED << host, processor_task, streams, all_events, sync_event_queue, queues,
                    sub_filter, keepalives, next_event_id, published >>

\* the for loop over historical_events yields the next frame
ReplayNext(s) ==
    /\ LoopFree
    /\ sub_pc[s] = "replay"
    /\ sub_hist[s] # << >>
    /\ frames' = [frames EXCEPT ![s] = Append(@, DataFrame(Head(sub_hist[s]), "history"))]
    /\ sub_hist' = [sub_hist EXCEPT ![s] = Tail(@)]
    /\ UNCHANGED pvars
    /\ UNCHANGED << host, processor_task, streams, all_events, sync_event_queue, queues,
                    sub_pc, sub_filter, keepalives, next_event_id, published >>

\* the connection waits in asyncio.wait_for(event_queue.get(), 30.0)
Waiting(s) == sub_pc[s] = "live" \/ (sub_pc[s] = "replay" /\ sub_hist[s] = << >>)

\* event_queue.get() returns an event: yield its frame
LiveEvent(s) ==
    /\ LoopFree
    /\ Waiting(s)
    /\ queues[s] # << >>
    /\ LET event == Head(queues[s]) IN
        /\ queues' = [queues EXCEPT ![s] = Tail(@)]
        /\ frames' = [frames EXCEPT ![s] = Append(@, DataFrame(event, "live"))]
        /\ sub_pc' = [sub_pc EXCEPT ![s] = IF IsTerminal(event) THEN "terminal" ELSE "live"]
    /\ UNCHANGED pvars
    /\ UNCHANGED << host, processor_task, streams, all_events, sync_event_queue,
                    sub_filter, sub_hist, keepalives, next_event_id, published >>

\* asyncio.TimeoutError: yield the keepalive comment
Keepalive(s) ==
    /\ LoopFree
    /\ Waiting(s)
    /\ queues[s] = << >>
    /\ keepalives < MaxKeepalives
    /\ keepalives' = keepalives + 1
    /\ frames' = [frames EXCEPT ![s] = Append(@, KeepaliveFrame)]
    /\ sub_pc' = [sub_pc EXCEPT ![s] = "live"]
    /\ UNCHANGED pvars
    /\ UNCHANGED << host, processor_task, streams, all_events, sync_event_queue, queues,
                    sub_filter, sub_hist, next_event_id, published >>

\* after the frame of a terminal event: yield "data: [DONE]"
EmitDone(s) ==
    /\ LoopFree
    /\ sub_pc[s] = "terminal"
    /\ frames' = [frames EXCEPT ![s] = Append(@, DoneFrame)]
    /\ sub_pc' = [sub_pc EXCEPT ![s] = "done"]
    /\ UNCHANGED pvars
    /\ UNCHANGED << host, processor_task, streams, all_events, sync_event_queue, queues,
                    sub_filter, sub_hist, keepalives, next_event_id, published >>

\* an exception in the generator body: yield the error frame
StreamError(s) ==
    /\ LoopFree
    /\ sub_pc[s] \in { "replay", "live" }
    /\ frames' = [frames EXCEPT ![s] = Append(@, ErrorFrame)]
    /\ sub_pc' = [sub_pc EXCEPT ![s] = "error"]
    /\ UNCHANGED pvars
    /\ UNCHANGED << host, processor_task, streams, all_events, sync_event_queue, queues,
                    sub_filter, sub_hist, keepalives, next_event_id, published >>

\* break after [DONE], or the end of the except clause: finally, then the end
Finish(s) ==
    /\ LoopFree
    /\ sub_pc[s] \in { "done", "error" }
    /\ streams' = Cleanup(streams, s)
    /\ sub_pc' = [sub_pc EXCEPT ![s] = "closed"]
    /\ UNCHANGED pvars
    /\ UNCHANGED << host, processor_task, all_events, sync_event_queue, queues,
                    sub_filter, sub_hist, frames, keepalives, next_event_id, published >>

\* the client goes away while the generator is suspended: finally runs
Cancel(s) ==
    /\ LoopFree
    /\ sub_pc[s] \in { "replay", "live", "terminal", "done", "error" }
    /\ streams' = Cleanup(streams, s)
    /\ sub_pc' = [sub_pc EXCEPT ![s] = "closed"]
    /\ UNCHANGED pvars
    /\ UNCHANGED << host, processor_task, all_events, sync_event_queue, queues,
                    sub_filter, sub_hist, frames, keepalives, next_event_id, published >>

\* the client goes away before the response body is first iterated: the
\* generator body, and so its finally clause, never runs
DisconnectBeforeStart(s) ==
    /\ LoopFree
    /\ sub_pc[s] = "registered"
    /\ sub_pc' = [sub_pc EXCEPT ![s] = "closed"]
    /\ UNCHANGED pvars
    /\ UNCHANGED << host, processor_task, streams, all_events, sync_event_queue, queues,
                    sub_filter, sub_hist, frames, keepalives, next_event_id, published >>

\* ------------------------------------------------------------------- next
Next ==
    \/ StartProcessor
    \/ \E envelope \in Envelopes : LogEvent(envelope)
    \/ ProcessSyncEventQueue
    \/ \E s \in Subs, f \in Filters : RegisterStream(s, f[1], f[2], f[3])
    \/ \E s \in Subs : UnregisterStream(s)
    \/ \E s \in Subs, f \in Filters : StreamEvents(s, f[1], f[2], f[3])
    \/ \E s \in Subs : GeneratorStart(s)
    \/ \E s \in Subs : ReplayNext(s)
    \/ \E s \in Subs : LiveEvent(s)
    \/ \E s \in Subs : Keepalive(s)
    \/ \E s \in Subs : EmitDone(s)
    \/ \E s \in Subs : StreamError(s)
    \/ \E s \in Subs : Finish(s)
    \/ \E s \in Subs : Cancel(s)
    \/ \E s \in Subs : DisconnectBeforeStart(s)

Spec == Init /\ [][Next]_vars

\* The same system under the scheduling asyncio gives a task that was
\* created: a runnable turn of the processor loop is eventually taken.
SpecFair ==
    /\ Init
    /\ [][Next]_vars
    /\ WF_vars(StartProcessor)
    /\ WF_vars(ProcessSyncEventQueue)

\* The broadcaster alone: producers log events, the processor publishes them,
\* callers of the StreamManager API register and unregister their queues.
NextBroadcast ==
    \/ StartProcessor
    \/ \E envelope \in Envelopes : LogEvent(envelope)
    \/ ProcessSyncEventQueue
    \/ \E s \in Subs, f \in Filters : RegisterStream(s, f[1], f[2], f[3])
    \/ \E s \in Subs : UnregisterStream(s)

SpecBroadcast == Init /\ [][NextBroadcast]_vars

\* The broadcaster with callers that unregister a queue more than once, or a
\* queue they never registered.
NextRegistry ==
    \/ StartProcessor
    \/ \E envelope \in Envelopes : LogEventUpTo(envelope, MaxHandoff)
    \/ ProcessSyncEventQueue
    \/ \E s \in Subs, f \in Filters : RegisterStream(s, f[1], f[2], f[3])
    \/ \E s \in Subs : UnregisterStream(s)
    \/ \E s \in Subs, f \in Filters : UnregisterStreamAgain(s, f[1], f[2], f[3])

SpecRegistry == Init /\ [][NextRegistry]_vars

\* The broadcaster with GET /stream connections that replay the history and
\* then emit the live events until the client goes away.
Connections == 1..MaxConnections

NextConnection ==
    \/ StartProcessor
    \/ \E envelope \in Envelopes : LogEvent(envelope)
    \/ ProcessSyncEventQueue
    \/ \E s \in Connections, f \in Filters : StreamEvents(s, f[1], f[2], f[3])
    \/ \E s \in Connections : GeneratorStart(s)
    \/ \E s \in Connections : ReplayNext(s)
    \/ \E s \in Connections : LiveEvent(s)
    \/ \E s \in Connections : Cancel(s)

SpecConnection == Init /\ [][NextConnection]_vars

\* The broadcaster with GET /stream connections whose wait for the next event
\* can time out.
NextKeepalive ==
    \/ StartProcessor
    \/ \E envelope \in Envelopes : LogEvent(envelope)
    \/ ProcessSyncEventQueue
    \/ \E s \in Connections, f \in Filters : StreamEvents(s, f[1], f[2], f[3])
    \/ \E s \in Connections : GeneratorStart(s)
    \/ \E s \in Connections : ReplayNext(s)
    \/ \E s \in Connections : LiveEvent(s)
    \/ \E s \in Connections : Keepalive(s)

SpecKeepalive == Init /\ [][NextKeepalive]_vars

\* The broadcaster with subscriber queues whose put() can raise.
NextDelivery ==
    \/ StartProcessor
    \/ \E envelope \in Envelopes : LogEvent(envelope)
    \/ ProcessSyncEventQueue
    \/ \E s \in Subs, f \in Filters : RegisterStream(s, f[1], f[2], f[3])
    \/ \E q \in Subs : ProcessSyncEventQueueFailing({ q })

SpecDelivery == Init /\ [][NextDelivery]_vars

\* A long run of one producer against the history buffer: the producer logs
\* the next event once the handoff queue holds fewer than MaxHandoff events.
HistoryEnvelope ==
    [event_type |-> "progress.update", project_id |-> << "p1" >>,
     conversation_id |-> << "c1" >>, payload_model_name |-> << "Gemini" >>]

HistoryLog ==
    /\ Len(sync_event_queue) < MaxHandoff
    /\ LogEventUpTo(HistoryEnvelope, MaxHistoryRun)

NextHistory == StartProcessor \/ HistoryLog \/ ProcessSyncEventQueue

SpecHistory == Init /\ [][NextHistory]_vars

\* ---------------------------------------------------------- router_config
\* str.strip() on atoms: blanks at both ends go
RECURSIVE Strip(_)
Strip(s) ==
    IF s = << >> THEN s
    ELSE IF Head(s) = " " THEN Strip(Tail(s))
    ELSE IF s[Len(s)] = " " THEN Strip(SubSeq(s, 1, Len(s) - 1))
    ELSE s

\* mutant: the map knows the provider names only, not the aliases
MODEL_FAMILY_MAP_no_alias ==
    (<< "gemini" >> :> "gemini") @@ (<< "anthropic" >> :> "claude")
        @@ (<< "openai" >> :> "gpt")

MODEL_FAMILY_MAP ==
    (<< "gemini" >> :> "gemini") @@ (<< "anthropic" >> :> "claude")
        @@ (<< "claude" >> :> "claude") @@ (<< "openai" >> :> "gpt")
        @@ (<< "gpt" >> :> "gpt")

ROUTER_CONFIG ==
    [gemini |-> [router_model |-> "gemini-2.0-flash-lite",
                 main_model |-> "gemini-3-pro-preview", provider |-> "gemini"],
     claude |-> [router_model |-> "claude-haiku-4-5-20251001",
                 main_model |-> "claude-opus-4-5-20251101", provider |-> "anthropic"],
     gpt |-> [router_model |-> "gpt-4o-mini",
              main_model |-> "gpt-5.2", provider |-> "openai"]]

\* mutant: a family that is not in the map is taken for claude
normalize_model_family_claude(model_family) ==
    IF ~Truthy(model_family) THEN "gemini"
    ELSE LET model_family_lower == Strip(Lower(model_family)) IN
         IF model_family_lower \in DOMAIN MODEL_FAMILY_MAP
         THEN MODEL_FAMILY_MAP[model_family_lower]
         ELSE "claude"

normalize_model_family(model_family) ==
    IF ~Truthy(model_family) THEN "gemini"
    ELSE LET model_family_lower == Strip(Lower(model_family)) IN
         IF model_family_lower \in DOMAIN MODEL_FAMILY_MAP
         THEN MODEL_FAMILY_MAP[model_family_lower]
         ELSE "gemini"

RouterConfigOf(model_family) ==
    LET internal_key == normalize_model_family(model_family) IN
    IF internal_key \in DOMAIN ROUTER_CONFIG
    THEN ROUTER_CONFIG[internal_key] ELSE ROUTER_CONFIG["gemini"]

get_router_model(model_family) == RouterConfigOf(model_family).router_model

get_main_model(model_family) == RouterConfigOf(model_family).main_model

get_provider(model_family) == RouterConfigOf(model_family).provider

get_modification_model(model_family, complexity) ==
    LET complexity_lower == IF Truthy(complexity) THEN Lower(complexity) ELSE << "medium" >>
    IN IF complexity_lower = << "complex" >>
       THEN get_main_model(model_family)
       ELSE get_router_model(model_family)

\* ------------------------------------------------------- pipeline inputs
\* request.model_family
Families ==
    { None, << "Gemini" >>, << "Anthropic" >>, << " ", "CLAUDE", " " >>,
      << "OpenAI" >>, << "mistral" >> }

Complexities == { << "small" >>, << "medium" >>, << "complex" >> }

\* what a generation call can do: return text that parse_project_json turns
\* into a project, text it cannot parse (ending with '}' or cut off before
\* it), or raise a provider error
Outcomes == { "valid", "malformed", "truncated", "raise" }

ParseOk(outcome) == outcome = "valid"

\* ---------------------------------------------------------------- events
Ev(event_type) ==
    [event_type |-> event_type, step |-> "", status |-> "", scope |-> "", actions |-> << >>]

Progress(step, status) ==
    [event_type |-> "progress.update", step |-> step, status |-> status, scope |-> "",
     actions |-> << >>]

\* emit_error(scope="validation", ..., actions=["retry", "ask_user"])
ErrorEvent ==
    [event_type |-> "error", step |-> "", status |-> "", scope |-> "validation",
     actions |-> << "retry", "ask_user" >>]

RunProjectId == << "p1" >>

RunConversationId == << "c1" >>

\* EventEmitter.emit_*: build the envelope and hand it to the callback
EmitterEnvelope(event) ==
    [event_type |-> event.event_type, project_id |-> RunProjectId,
     conversation_id |-> RunConversationId, payload_model_name |-> run_family]

\* the handoff queue after log_event was called for each of the events
RECURSIVE LogAll(_, _, _)
LogAll(handoff, events, id) ==
    IF events = << >> THEN handoff
    ELSE LogAll(Append(handoff, EventDict(EmitterEnvelope(Head(events)), id + 1)),
                Tail(events), id + 1)

\* the run emits these events, in this order
Emit(events) ==
    /\ run_events' = run_events \o events
    /\ sync_event_queue' = LogAll(sync_event_queue, events, next_event_id)
    /\ next_event_id' = next_event_id + Len(events)

\* one generation call of the handler: the model and the prompt it passes, the
\* step of the retry ladder it is ("first", "strict" or "fallback")
Call(model, prompt, attempt) ==
    [model |-> model, prompt |-> prompt, attempt |-> attempt,
     provider |-> get_provider(run_family)]

\* ------------------------------------------------------ generate_project
\* lines 83-104: the request is read, the emitter built, the start announced
GenerateProject(model_family, page_type_given) ==
    /\ run_pc \in { "idle", "done" }
    /\ runs_started < MaxRuns
    /\ runs_started' = runs_started + 1
    /\ run_kind' = "generate"
    /\ run_family' = PyOr(model_family, << "Gemini" >>)
    /\ run_model' = NoModel
    /\ run_calls' = << >>
    /\ run_outcomes' = << >>
    /\ run_result' = "none"
    /\ run_pc' = IF page_type_given THEN "analyze_query" ELSE "classify_page"
    /\ LET first == [event_type |-> "chat.message", project_id |-> RunProjectId,
                     conversation_id |-> RunConversationId,
                     payload_model_name |-> PyOr(model_family, << "Gemini" >>)]
       IN /\ run_events' = << Ev("chat.message") >>
          /\ sync_event_queue' = Append(sync_event_queue, EventDict(first, next_event_id + 1))
          /\ next_event_id' = next_event_id + 1
    /\ UNCHANGED connvars

\* lines 112-115: classify_page_type_unified returns
ClassifyPageType ==
    /\ run_kind = "generate"
    /\ run_pc = "classify_page"
    /\ run_pc' = "analyze_query"
    /\ UNCHANGED << connvars, sync_event_queue, next_event_id, run_kind, run_family,
                    run_model, run_events, run_calls, run_outcomes, run_result,
                    runs_started >>

QuestionEvents(n) == [i \in 1 .. n |-> Ev("chat.question")]

\* lines 211-219: emit_progress_init(steps=[...]) with the four phases and
\* their first statuses
ProgressInit ==
    [event_type |-> "progress.init", step |-> "", status |-> "", scope |-> "",
     actions |-> << >>,
     steps |-> << [id |-> "prepare", status |-> "in_progress"],
                  [id |-> "generate", status |-> "pending"],
                  [id |-> "parse", status |-> "pending"],
                  [id |-> "save", status |-> "pending"] >>]

\* mutant: the first update is emitted before the progress is opened
OpenProgressUpdateFirst ==
    << Progress("prepare", "completed"), ProgressInit,
       Progress("generate", "in_progress"), Ev("thinking.start") >>

\* lines 211-223: the progress is opened, prepare closed, generate opened
OpenProgress ==
    << ProgressInit, Progress("prepare", "completed"),
       Progress("generate", "in_progress"), Ev("thinking.start") >>

\* lines 120-223: analyze_query_detail_unified returns; the questionnaire is
\* surfaced if needed, the prompt built, the progress opened
AnalyzeQuery(needs_followup, answers_given, has_questionnaire, questions) ==
    /\ run_kind = "generate"
    /\ run_pc = "analyze_query"
    /\ run_pc' = "generate_call"
    /\ run_model' = get_main_model(run_family)
    /\ run_calls' = Append(run_calls, Call(get_main_model(run_family), "base", "first"))
    /\ UNCHANGED run_outcomes
    /\ Emit((IF needs_followup /\ ~answers_given /\ has_questionnaire
             THEN << Ev("chat.message") >> \o QuestionEvents(questions)
                      \o << Ev("chat.message") >>
             ELSE << >>)
            \o OpenProgress)
    /\ UNCHANGED << connvars, run_kind, run_family, run_result, runs_started >>

\* mutant: a call that raised is issued once more
RaiseRetried ==
    /\ run_pc' = IF Len(run_calls) < 4 THEN run_pc ELSE "done"
    /\ run_result' = IF Len(run_calls) < 4 THEN "none" ELSE "provider_error"
    /\ run_calls' = IF Len(run_calls) < 4
                    THEN Append(run_calls, run_calls[Len(run_calls)]) ELSE run_calls
    /\ UNCHANGED << connvars, sync_event_queue, next_event_id, run_kind, run_family,
                    run_model, run_events, runs_started >>

\* an exception leaves the handler as an HTTPException: no event is emitted
Raise ==
    /\ run_pc' = "done"
    /\ run_result' = "provider_error"
    /\ UNCHANGED << connvars, sync_event_queue, next_event_id, run_kind, run_family,
                    run_model, run_events, run_calls, runs_started >>

\* lines 325-354: the project is saved and returned
GenerateSaved(before, saved) ==
    IF saved
    THEN /\ Emit(before \o << Progress("parse", "completed"), Progress("save", "in_progress"),
                             Progress("save", "completed"), Ev("chat.message"),
                             Ev("stream.complete") >>)
         /\ run_pc' = "done"
         /\ run_result' = "success"
    ELSE /\ Emit(before \o << Progress("parse", "completed"), Progress("save", "in_progress") >>)
         /\ run_pc' = "done"
         /\ run_result' = "save_error"

\* mutant: the error is reported after the stream was declared failed
GenerateParseFailedErrorLast(before) ==
    /\ Emit(before \o << Progress("parse", "failed"), Ev("stream.failed"), ErrorEvent >>)
    /\ run_pc' = "done"
    /\ run_result' = "parse_failure"

\* lines 289-323: the terminal parse failure
GenerateParseFailed(before) ==
    /\ Emit(before \o << Progress("parse", "failed"), ErrorEvent, Ev("stream.failed") >>)
    /\ run_pc' = "done"
    /\ run_result' = "parse_failure"

\* mutant: the parse phase is opened while generate is left in progress
AfterThinkingGenerateOpen ==
    << Ev("thinking.end"), Progress("parse", "in_progress") >>

\* lines 241-243: the first call returned
AfterThinking ==
    << Ev("thinking.end"), Progress("generate", "completed"), Progress("parse", "in_progress") >>

\* mutant: the stricter-prompt retry is issued for every provider
NeedsStrictRetryAnyProvider(outcome) == ~ParseOk(outcome)

\* lines 249 and 459: `not project and provider != "gemini"`
NeedsStrictRetry(outcome) == ~ParseOk(outcome) /\ get_provider(run_family) # "gemini"

\* lines 227-287: the first generation call returns or raises
GenerateReturn(outcome, saved) ==
    /\ run_kind = "generate"
    /\ run_pc = "generate_call"
    /\ run_outcomes' = Append(run_outcomes, outcome)
    /\ IF outcome = "raise" THEN Raise
       ELSE IF ParseOk(outcome)
       THEN /\ GenerateSaved(AfterThinking, saved)
            /\ UNCHANGED << connvars, run_kind, run_family, run_model, run_calls, runs_started >>
       ELSE IF NeedsStrictRetry(outcome)
       THEN /\ Emit(AfterThinking
                    \o (IF outcome = "truncated" THEN << Ev("chat.message") >> ELSE << >>)
                    \o << Ev("chat.message") >>)
            /\ run_calls' = Append(run_calls, Call(run_model, "strict", "strict"))
            /\ run_pc' = "generate_retry_call"
            /\ UNCHANGED << connvars, run_kind, run_family, run_model, run_result, runs_started >>
       ELSE /\ GenerateParseFailed(AfterThinking)
            /\ UNCHANGED << connvars, run_kind, run_family, run_model, run_calls, runs_started >>

\* mutant: a stricter-prompt call whose output does not parse is issued again
GenerateRetryAgain(outcome, saved) ==
    /\ run_kind = "generate"
    /\ run_pc = "generate_retry_call"
    /\ run_outcomes' = Append(run_outcomes, outcome)
    /\ IF outcome = "raise" THEN Raise
       ELSE IF ParseOk(outcome)
       THEN /\ GenerateSaved(<< >>, saved)
            /\ UNCHANGED << connvars, run_kind, run_family, run_model, run_calls, runs_started >>
       ELSE IF Len(run_calls) < 4
       THEN /\ run_calls' = Append(run_calls, Call(run_model, "strict", "strict"))
            /\ UNCHANGED << connvars, sync_event_queue, next_event_id, run_pc, run_kind,
                            run_family, run_model, run_events, run_result, runs_started >>
       ELSE /\ GenerateParseFailed(<< >>)
            /\ UNCHANGED << connvars, run_kind, run_family, run_model, run_calls, runs_started >>

\* lines 275-323: the stricter-prompt call returns or raises
GenerateRetryReturn(outcome, saved) ==
    /\ run_kind = "generate"
    /\ run_pc = "generate_retry_call"
    /\ run_outcomes' = Append(run_outcomes, outcome)
    /\ IF outcome = "raise" THEN Raise
       ELSE IF ParseOk(outcome)
       THEN /\ GenerateSaved(<< >>, saved)
            /\ UNCHANGED << connvars, run_kind, run_family, run_model, run_calls, runs_started >>
       ELSE /\ GenerateParseFailed(<< >>)
            /\ UNCHANGED << connvars, run_kind, run_family, run_model, run_calls, runs_started >>

\* -------------------------------------------------------- modify_project
\* request.project_json given, request.project_id naming a saved project,
\* request.project_id naming none, or neither given
BaseProjects == { "json", "saved", "missing", "none" }

\* lines 373-454: the base project is found, the start announced, the
\* complexity classified, the model chosen and the first call issued; a
\* request without a base project is rejected before the emitter exists
ModifyProject(model_family, base, complexity) ==
    /\ run_pc \in { "idle", "done" }
    /\ runs_started < MaxRuns
    /\ runs_started' = runs_started + 1
    /\ run_kind' = "modify"
    /\ run_family' = PyOr(model_family, << "Gemini" >>)
    /\ run_outcomes' = << >>
    /\ IF base \in { "missing", "none" }
       THEN /\ run_pc' = "done"
            /\ run_result' = "rejected"
            /\ run_model' = NoModel
            /\ run_events' = << >>
            /\ run_calls' = << >>
            /\ UNCHANGED << sync_event_queue, next_event_id >>
       ELSE LET family == PyOr(model_family, << "Gemini" >>)
                mod_model == get_modification_model(family, complexity)
                first == [event_type |-> "chat.message", project_id |-> RunProjectId,
                          conversation_id |-> RunConversationId,
                          payload_model_name |-> family]
            IN /\ run_pc' = "modify_call"
               /\ run_result' = "none"
               /\ run_model' = mod_model
               /\ run_events' = << Ev("chat.message") >>
               /\ run_calls' = << [model |-> mod_model, prompt |-> "base",
                                   attempt |-> "first",
                                   provider |-> get_provider(family)] >>
               /\ sync_event_queue' = Append(sync_event_queue, EventDict(first, next_event_id + 1))
               /\ next_event_id' = next_event_id + 1
    /\ UNCHANGED connvars

\* lines 526-547: the modified project is saved and returned; no event
ModifySaved(saved) ==
    /\ run_pc' = "done"
    /\ run_result' = IF saved THEN "success" ELSE "save_error"
    /\ UNCHANGED << sync_event_queue, next_event_id, run_events, run_model, run_calls >>

\* mutant: the main-model call is issued whatever model the run was on
ModifyFallbackAlways ==
    /\ Emit(<< Ev("chat.message") >>)
    /\ run_calls' = Append(run_calls, Call(get_main_model(run_family), "base", "fallback"))
    /\ run_model' = get_main_model(run_family)
    /\ run_pc' = "modify_fallback_call"
    /\ UNCHANGED run_result

\* mutant: mod_model stays what it was when the main-model call is issued
ModifyFallbackKeepingModel ==
    IF run_model # get_main_model(run_family)
    THEN /\ Emit(<< Ev("chat.message") >>)
         /\ run_calls' = Append(run_calls, Call(get_main_model(run_family), "base", "fallback"))
         /\ run_pc' = "modify_fallback_call"
         /\ UNCHANGED << run_model, run_result >>
    ELSE /\ Emit(<< ErrorEvent >>)
         /\ run_pc' = "done"
         /\ run_result' = "parse_failure"
         /\ UNCHANGED << run_model, run_calls >>

\* lines 489-524: one more call on the main model if the run was not on it,
\* the terminal parse failure otherwise
ModifyFallbackOrFail ==
    IF run_model # get_main_model(run_family)
    THEN /\ Emit(<< Ev("chat.message") >>)
         /\ run_calls' = Append(run_calls, Call(get_main_model(run_family), "base", "fallback"))
         /\ run_model' = get_main_model(run_family)
         /\ run_pc' = "modify_fallback_call"
         /\ UNCHANGED run_result
    ELSE /\ Emit(<< ErrorEvent >>)
         /\ run_pc' = "done"
         /\ run_result' = "parse_failure"
         /\ UNCHANGED << run_model, run_calls >>

\* lines 443-524: the first modification call returns or raises
ModifyReturn(outcome, saved) ==
    /\ run_kind = "modify"
    /\ run_pc = "modify_call"
    /\ run_outcomes' = Append(run_outcomes, outcome)
    /\ IF outcome = "raise" THEN Raise
       ELSE /\ IF ParseOk(outcome) THEN ModifySaved(saved)
               ELSE IF NeedsStrictRetry(outcome)
               THEN /\ Emit(<< Ev("chat.message") >>)
                    /\ run_calls' = Append(run_calls, Call(run_model, "strict", "strict"))
                    /\ run_pc' = "modify_retry_call"
                    /\ UNCHANGED << run_model, run_result >>
               ELSE ModifyFallbackOrFail
            /\ UNCHANGED << connvars, run_kind, run_family, runs_started >>

\* lines 475-524: the stricter-prompt call returns or raises
ModifyRetryReturn(outcome, saved) ==
    /\ run_kind = "modify"
    /\ run_pc = "modify_retry_call"
    /\ run_outcomes' = Append(run_outcomes, outcome)
    /\ IF outcome = "raise" THEN Raise
       ELSE /\ IF ParseOk(outcome) THEN ModifySaved(saved)
               ELSE ModifyFallbackOrFail
            /\ UNCHANGED << connvars, run_kind, run_family, runs_started >>

\* lines 494-547: the main-model call returns or raises
ModifyFallbackReturn(outcome, saved) ==
    /\ run_kind = "modify"
    /\ run_pc = "modify_fallback_call"
    /\ run_outcomes' = Append(run_outcomes, outcome)
    /\ IF outcome = "raise" THEN Raise
       ELSE /\ IF ParseOk(outcome) THEN ModifySaved(saved)
               ELSE /\ Emit(<< ErrorEvent >>)
                    /\ run_pc' = "done"
                    /\ run_result' = "parse_failure"
                    /\ UNCHANGED << run_model, run_calls >>
            /\ UNCHANGED << connvars, run_kind, run_family, runs_started >>

\* The two handlers, one request after another (both are coroutines that
\* never await: a run holds the event loop from its first line to its last).
NextPipeline ==
    \/ \E model_family \in Families, page_type_given \in BOOLEAN :
           GenerateProject(model_family, page_type_given)
    \/ ClassifyPageType
    \/ \E needs_followup, answers_given, has_questionnaire \in BOOLEAN,
          questions \in 0 .. MaxQuestions :
           AnalyzeQuery(needs_followup, answers_given, has_questionnaire, questions)
    \/ \E outcome \in Outcomes, saved \in BOOLEAN : GenerateReturn(outcome, saved)
    \/ \E outcome \in Outcomes, saved \in BOOLEAN : GenerateRetryReturn(outcome, saved)
    \/ \E model_family \in Families, base \in BaseProjects, complexity \in Complexities :
           ModifyProject(model_family, base, complexity)
    \/ \E outcome \in Outcomes, saved \in BOOLEAN : ModifyReturn(outcome, saved)
    \/ \E outcome \in Outcomes, saved \in BOOLEAN : ModifyRetryReturn(outcome, saved)
    \/ \E outcome \in Outcomes, saved \in BOOLEAN : ModifyFallbackReturn(outcome, saved)

SpecPipeline == Init /\ [][NextPipeline]_vars

\* The whole service on one event loop: pipeline runs, the processor task of
\* a host that schedules it, and one GET /stream connection that follows the
\* project of the run.
NextSystem ==
    \/ \E model_family \in { None, << "Anthropic" >> } : GenerateProject(model_family, TRUE)
    \/ AnalyzeQuery(FALSE, FALSE, FALSE, 0)
    \/ \E outcome \in Outcomes : GenerateReturn(outcome, TRUE)
    \/ \E outcome \in Outcomes : GenerateRetryReturn(outcome, TRUE)
    \/ \E complexity \in Complexities : ModifyProject(None, "json", complexity)
    \/ \E outcome \in Outcomes : ModifyReturn(outcome, TRUE)
    \/ \E outcome \in Outcomes : ModifyFallbackReturn(outcome, TRUE)
    \/ StartProcessor
    \/ ProcessSyncEventQueue
    \/ StreamEvents(1, RunProjectId, None, None)
    \/ GeneratorStart(1)
    \/ ReplayNext(1)
    \/ LiveEvent(1)

SpecSystem == Init /\ [][NextSystem]_vars

\* The pipeline with every provider call ending: each client call returns
\* text or raises, so a handler that can take its next step takes it.
SpecPipelineFair == Init /\ [][NextPipeline]_vars /\ WF_vars(NextPipeline)

\* ----------------------------------------------------- provider adapters
\* the loop of generate_text over models_to_try, from its i-th model on:
\* outcomes[i] tells whether the i-th call to the provider returns or raises
RECURSIVE TryModels(_, _, _, _)
TryModels(models_to_try, outcomes, i, calls) ==
    LET model_name == models_to_try[i]
        issued == Append(calls, model_name)
    IN IF outcomes[i] = "ok"
       THEN [calls |-> issued, raised |-> FALSE, value |-> model_name]
       ELSE IF model_name # models_to_try[Len(models_to_try)]
       THEN TryModels(models_to_try, outcomes, i + 1, issued)
       ELSE [calls |-> issued, raised |-> TRUE, value |-> NoModel]

\* generate_text(prompt, model, fallback_models) of a provider adapter: the
\* calls it issues, whether it raises, and the model whose text it returns
generate_text(model, fallback_models, outcomes) ==
    LET models_to_try ==
            << model >> \o (IF Truthy(fallback_models) THEN fallback_models ELSE << >>)
    IN TryModels(models_to_try, outcomes, 1, << >>)

\* the fallback_models of the classification helpers of gemini_client
FallbackModels == << "gemini-2.0-flash", "gemini-3-pro-preview" >>

\* what each call to the provider does, for as many calls as can be issued
CallOutcomes == [1 .. (1 + Len(FallbackModels)) -> { "ok", "error" }]

\* the helpers the *_unified functions route to
Helpers ==
    { "classify_intent", "classify_page_type", "analyze_query_detail", "chat_response",
      "classify_modification_complexity" }

\* a classification helper is called through its *_unified function: the
\* provider and the router model of the family, then the provider's helper;
\* every helper but chat_response catches what generate_text raises
ClassificationHelper(helper, model_name, outcomes) ==
    /\ LoopFree
    /\ LET provider == get_provider(model_name)
           model == get_router_model(model_name)
           out == generate_text(model,
                                IF provider = "gemini" THEN FallbackModels ELSE None,
                                outcomes)
       IN /\ call' = [fn |-> helper, family |-> model_name, complexity |-> None,
                       operation_type |-> "router", outcomes |-> outcomes,
                        input |-> JNull]
          /\ provider_calls' = out.calls
          /\ result' = [value |-> out.value,
                        raised |-> out.raised /\ helper = "chat_response"]
    /\ UNCHANGED << bvars, runvars, gvars >>

\* the generation call of generate_project / modify_project: the adapter of
\* the family's provider with the model alone
GenerationCall(model_family, outcomes) ==
    /\ LoopFree
    /\ LET out == generate_text(get_main_model(model_family), None, outcomes)
       IN /\ call' = [fn |-> "generate_text", family |-> model_family,
                       complexity |-> None, operation_type |-> "main",
                       outcomes |-> outcomes,
                        input |-> JNull]
          /\ provider_calls' = out.calls
          /\ result' = [value |-> out.value, raised |-> out.raised]
    /\ UNCHANGED << bvars, runvars, gvars >>

NextAdapter ==
    \/ \E helper \in Helpers, f \in Families, outcomes \in CallOutcomes :
           ClassificationHelper(helper, f, outcomes)
    \/ \E f \in Families, outcomes \in CallOutcomes : GenerationCall(f, outcomes)

SpecAdapter == Init /\ [][NextAdapter]_vars

\* ------------------------------------------------------------ the router
\* model_family / model_name values a caller can pass
RouterFamilies ==
    Families \cup { << >>, << " " >>, << "gemini" >>, << "Claude" >>, << "gpt" >>,
                    << "GPT", " " >>, << "llama" >>, << "anthropic" >>, << "claude" >> }

\* complexity values a caller can pass, None and "" among them
RouterComplexities ==
    Complexities \cup { None, << >>, << "Complex" >>, << " ", "complex" >>, << "large" >> }

OperationTypes == { "router", "main", "modification" }

\* a lookup of router_config returns
Lookup(fn, model_family, complexity, value) ==
    /\ LoopFree
    /\ call' = [fn |-> fn, family |-> model_family, complexity |-> complexity,
                 operation_type |-> "", outcomes |-> << >>,
                        input |-> JNull]
    /\ result' = [value |-> value, raised |-> FALSE]
    /\ provider_calls' = << >>
    /\ UNCHANGED << bvars, runvars, gvars >>

GetProvider(model_family) ==
    Lookup("get_provider", model_family, None, get_provider(model_family))

GetRouterModel(model_family) ==
    Lookup("get_router_model", model_family, None, get_router_model(model_family))

GetMainModel(model_family) ==
    Lookup("get_main_model", model_family, None, get_main_model(model_family))

GetModificationModel(model_family, complexity) ==
    Lookup("get_modification_model", model_family, complexity,
           get_modification_model(model_family, complexity))

\* lines 27-34 of generate_text_unified: the model it passes to the adapter
UnifiedModel(model_name, operation_type, complexity) ==
    IF operation_type = "router" THEN get_router_model(model_name)
    ELSE IF operation_type = "modification" /\ Truthy(complexity)
    THEN get_modification_model(model_name, complexity)
    ELSE get_main_model(model_name)

\* generate_text_unified(prompt, model_name, operation_type, complexity)
GenerateTextUnified(model_name, operation_type, complexity, outcomes) ==
    /\ LoopFree
    /\ LET out == generate_text(UnifiedModel(model_name, operation_type, complexity),
                                None, outcomes)
       IN /\ call' = [fn |-> "generate_text_unified", family |-> model_name,
                       complexity |-> complexity, operation_type |-> operation_type,
                       outcomes |-> outcomes,
                        input |-> JNull]
          /\ provider_calls' = out.calls
          /\ result' = [value |-> out.value, raised |-> out.raised]
    /\ UNCHANGED << bvars, runvars, gvars >>

NextRouter ==
    \/ \E f \in RouterFamilies : GetProvider(f)
    \/ \E f \in RouterFamilies : GetRouterModel(f)
    \/ \E f \in RouterFamilies : GetMainModel(f)
    \/ \E f \in RouterFamilies, c \in RouterComplexities : GetModificationModel(f, c)
    \/ \E f \in RouterFamilies, op \in OperationTypes, c \in RouterComplexities,
          outcomes \in [1 .. 1 -> { "ok", "error" }] :
           GenerateTextUnified(f, op, c, outcomes)

SpecRouter == Init /\ [][NextRouter]_vars

\* ------------------------------------------------- the project extractor
\* a model output: text that is empty, that holds no '{' ... '}', that no
\* parsing strategy decodes, or that decodes to a JSON value
JText(how, decoded) == [kind |-> "text", keys |-> << >>, vals |-> decoded, atom |-> how]

\* raw['project'].get('files', {}) and raw.get('files', {})
FilesOrEmpty(project) ==
    IF Has(project, "files") THEN Get(project, "files") ELSE JDict(<< >>, << >>)

\* the print of a case evaluates len(files): a TypeError there is caught by
\* `except Exception` and the function returns None
ReturnLogged(project) ==
    IF Sized(FilesOrEmpty(project)) THEN project ELSE JNull

\* Case 2, the loop over the items of a list from its i-th item on
RECURSIVE FirstProjectItem(_, _)
FirstProjectItem(items, i) ==
    IF i > Len(items) THEN JNull
    ELSE IF IsDict(items[i]) /\ Has(items[i], "project")
    THEN IF IsDict(Get(items[i], "project"))
         THEN ReturnLogged(Get(items[i], "project"))
         ELSE JNull
    ELSE FirstProjectItem(items, i + 1)

\* parse_project_json(text): the inner project, or JNull for None
parse_project_json(text) ==
    IF text.atom # "json" THEN JNull
    ELSE LET raw == text.vals[1] IN
         IF IsDict(raw) /\ Has(raw, "project") /\ IsDict(Get(raw, "project"))
         THEN ReturnLogged(Get(raw, "project"))
         ELSE IF IsList(raw) THEN FirstProjectItem(raw.vals, 1)
         ELSE IF IsDict(raw) /\ Has(raw, "files") THEN ReturnLogged(raw)
         ELSE JNull

\* d[key] = v
SetKey(d, key, v) ==
    IF Has(d, key)
    THEN JDict(d.keys, [i \in DOMAIN d.vals |-> IF d.keys[i] = key THEN v ELSE d.vals[i]])
    ELSE JDict(Append(d.keys, key), Append(d.vals, v))

\* fixed.update(item)
RECURSIVE UpdateFrom(_, _, _)
UpdateFrom(fixed, item, i) ==
    IF i > Len(item.keys) THEN fixed
    ELSE UpdateFrom(SetKey(fixed, item.keys[i], item.vals[i]), item, i + 1)

\* the loop of normalize_project over a files list: dict items are merged,
\* every other item is skipped
RECURSIVE MergeFiles(_, _, _)
MergeFiles(fixed, items, i) ==
    IF i > Len(items) THEN fixed
    ELSE IF IsDict(items[i])
    THEN MergeFiles(UpdateFrom(fixed, items[i], 1), items, i + 1)
    ELSE MergeFiles(fixed, items, i + 1)

Raised == [value |-> JNull, raised |-> TRUE]

Returned(v) == [value |-> v, raised |-> FALSE]

\* normalize_project(project): what it returns, or that it raised
normalize_project(project) ==
    LET first == IF IsList(project) /\ project.vals # << >> THEN project.vals[1] ELSE project
        inner == IF IsDict(first) /\ Has(first, "project") THEN Get(first, "project") ELSE first
    IN IF IsList(project) /\ project.vals = << >> THEN Raised
       ELSE IF ~IsDict(first) THEN Raised
       ELSE IF ~IsDict(inner) THEN Raised
       ELSE LET files == IF Has(inner, "files") THEN Get(inner, "files") ELSE JNull
                fixed == IF IsList(files)
                         THEN SetKey(inner, "files",
                                     MergeFiles(JDict(<< >>, << >>), files.vals, 1))
                         ELSE inner
            IN IF Has(fixed, "files") /\ IsDict(Get(fixed, "files"))
               THEN Returned(fixed) ELSE Raised

\* ------------------------------------------------------ extractor inputs
FileA == JDict(<< "a.txt" >>, << JStr("hi") >>)

FileB == JDict(<< "b.txt" >>, << JStr("yo") >>)

\* values of a project's files field
FilesValues ==
    { JDict(<< "a.txt", "b.txt" >>, << JStr("hi"), JStr("yo") >>),
      JDict(<< >>, << >>),
      JList(<< FileA, FileB >>),
      JList(<< FileA, JStr("junk") >>),
      JList(<< >>),
      JNull, JNum("3"), JStr("files") }

\* inner projects, with and without a files field
InnerProjects ==
    { JDict(<< "name", "files" >>, << JStr("x"), files >>) : files \in FilesValues }
        \cup { JDict(<< "name" >>, << JStr("x") >>) }

Wrap(project) == JDict(<< "project" >>, << project >>)

\* what a model output decodes to
RawValues ==
    InnerProjects
        \cup { Wrap(p) : p \in InnerProjects }
        \cup { JList(<< Wrap(p) >>) : p \in InnerProjects }
        \cup { JList(<< JNum("1"), Wrap(p) >>) : p \in InnerProjects }
        \cup { JList(<< Wrap(JStr("x")), Wrap(p) >>) : p \in InnerProjects }
        \cup { JDict(<< "project", "files" >>, << JStr("x"), files >>) :
                   files \in FilesValues }
        \cup { JNum("1"), JStr("x"), JNull, JList(<< >>), JList(<< JNum("1") >>),
               Wrap(JStr("x")), Wrap(JList(<< >>)) }

Texts ==
    { JText("json", << raw >>) : raw \in RawValues }
        \cup { JText("empty", << >>), JText("no_braces", << >>),
               JText("undecodable", << >>) }

ParseProjectJson(text) ==
    /\ LoopFree
    /\ call' = [fn |-> "parse_project_json", family |-> None, complexity |-> None,
                 operation_type |-> "", outcomes |-> << >>, input |-> text]
    /\ result' = Returned(parse_project_json(text))
    /\ provider_calls' = << >>
    /\ UNCHANGED << bvars, runvars, gvars >>

NormalizeProject(project) ==
    /\ LoopFree
    /\ call' = [fn |-> "normalize_project", family |-> None, complexity |-> None,
                 operation_type |-> "", outcomes |-> << >>, input |-> project]
    /\ result' = normalize_project(project)
    /\ provider_calls' = << >>
    /\ UNCHANGED << bvars, runvars, gvars >>

NextExtractor ==
    \/ \E text \in Texts : ParseProjectJson(text)
    \/ \E project \in RawValues : NormalizeProject(project)

SpecExtractor == Init /\ [][NextExtractor]_vars

\* ================================================================= claims
\* helpers of the claims
Registered(s) == \E k \in DOMAIN streams : \E j \in DOMAIN streams[k] : streams[k][j] = s

\* the triple a subscriber passed to register_stream
RegisteredFilter(s) ==
    IF sub_pc[s] \in { "api", "leaked" } THEN sub_filter[s]
    ELSE << sub_filter[s][1], sub_filter[s][2], None >>

PlainId(x) == x = None \/ (Len(x) = 1 /\ x[1] \notin { ":", "*" })

PlainFilter(f) == PlainId(f[1]) /\ PlainId(f[2]) /\ PlainId(f[3])

\* a broadcast_event call happens in this step, for NewEvent
Broadcasting == published' # published

NewEvent == published'[Len(published')]

Got(s) == queues'[s] = Append(queues[s], NewEvent)

GotNothing(s) == queues'[s] = queues[s]

InSeq(x, seq) == \E i \in DOMAIN seq : seq[i] = x

Increasing(seq) == \A i, j \in DOMAIN seq : i < j => seq[i].event_id < seq[j].event_id

\* the filter matches on every field it sets; an absent event value never matches
StrictMatch(f, event) ==
    /\ Truthy(f[1]) => event.project_id = f[1]
    /\ Truthy(f[2]) => event.conversation_id = f[2]
    /\ Truthy(f[3]) => /\ Truthy(EventModelName(event))
                       /\ Lower(EventModelName(event)) = Lower(f[3])

\* as StrictMatch, but an event without a model name passes every model filter
LenientModelMatch(f, event) ==
    /\ Truthy(f[1]) => event.project_id = f[1]
    /\ Truthy(f[2]) => event.conversation_id = f[2]
    /\ Truthy(f[3]) => \/ ~Truthy(EventModelName(event))
                       \/ Lower(EventModelName(event)) = Lower(f[3])

\* C3 (as claimed): broadcast_event puts an event on a registered subscriber's
\* queue if and only if the subscriber's filter matches it on every
\* non-wildcard field, an event without a value for a filtered field not matching.
C3_StrictFilter ==
    [][Broadcasting =>
         \A s \in Subs : Registered(s) =>
             /\ StrictMatch(RegisteredFilter(s), NewEvent) => Got(s)
             /\ ~StrictMatch(RegisteredFilter(s), NewEvent) => GotNothing(s)]_vars

\* C3 (amended): for a registered subscriber whose filter ids hold no ':' and
\* are not '*', broadcast_event puts an event on its queue exactly once if the
\* filter matches on project_id and conversation_id exactly and on the model
\* family case-insensitively, where an event that carries no model name
\* matches every model filter; otherwise it puts nothing on the queue.
C3_FilterMatch ==
    [][Broadcasting =>
         \A s \in Subs : (Registered(s) /\ PlainFilter(RegisteredFilter(s))) =>
             /\ LenientModelMatch(RegisteredFilter(s), NewEvent) => Got(s)
             /\ ~LenientModelMatch(RegisteredFilter(s), NewEvent) => GotNothing(s)]_vars

\* C3 witness: a subscriber that filters on the model family holds exactly the
\* published event that carries no model name, while an event of another
\* family was published and did not reach it.
C3_Witness ==
    \E s \in Subs :
        /\ sub_pc[s] = "api"
        /\ sub_filter[s] = << None, None, << "gemini" >> >>
        /\ Len(published) = 2
        /\ Len(queues[s]) = 1
        /\ ~Truthy(EventModelName(queues[s][1]))
        /\ \E i \in DOMAIN published : published[i].model_name = << "Claude" >>

OnlyP1 == << << "p1" >>, None, None >>

\* C4: a subscriber registered with only project_id = p1 gets every published
\* event whose project_id is p1 and never one whose project_id differs or is absent.
C4_ProjectFilter ==
    [][Broadcasting =>
         \A s \in Subs : (Registered(s) /\ RegisteredFilter(s) = OnlyP1) =>
             /\ NewEvent.project_id = << "p1" >> => Got(s)
             /\ NewEvent.project_id # << "p1" >> => GotNothing(s)]_vars

\* C4 witness: such a subscriber holds a p1 event while an event of another
\* project and an event without project were published and did not reach it.
C4_Witness ==
    \E s \in Subs :
        /\ Registered(s) /\ RegisteredFilter(s) = OnlyP1
        /\ Len(published) = 2
        /\ published[1].project_id # << "p1" >>
        /\ published[2].project_id = << "p1" >>
        /\ queues[s] = << published[2] >>

Wildcard == << None, None, None >>

\* C5: a subscriber registered with no filter gets every event published
\* while it is registered.
C5_WildcardGetsAll ==
    [][Broadcasting =>
         \A s \in Subs : (Registered(s) /\ RegisteredFilter(s) = Wildcard) => Got(s)]_vars

\* C5 witness: a wildcard subscriber holds two events of different projects,
\* one of them without project, conversation and model.
C5_Witness ==
    \E s \in Subs :
        /\ Registered(s) /\ RegisteredFilter(s) = Wildcard
        /\ Len(queues[s]) = 2
        /\ queues[s][1].project_id # queues[s][2].project_id
        /\ \E i \in 1 .. 2 : queues[s][i].project_id = None

\* C7: every subscriber queue and the history buffer hold their events in the
\* order of the log_event calls, which is the order of the broadcast_event calls.
C7_Order ==
    /\ \A s \in Subs : Increasing(queues[s])
    /\ Increasing(all_events)
    /\ Increasing(published)
    /\ Increasing(sync_event_queue)

\* C7 witness: two events are on one subscriber queue and in the history.
C7_Witness ==
    /\ Len(all_events) = 2
    /\ \E s \in Subs : Len(queues[s]) = 2

DataFrames(s) == SelectSeq(frames[s], LAMBDA f : f.kind = "data")

\* C8 (as claimed): on a connection every replayed frame precedes every live
\* frame, and the data frames are in publication order: no frame of an event
\* comes after the frame of an event that was published later.
C8_ReplayThenLiveInOrder ==
    \A s \in Subs :
        LET d == DataFrames(s) IN
        \A i, j \in DOMAIN d : i < j =>
            /\ ~(d[i].from = "live" /\ d[j].from = "history")
            /\ d[i].event.event_id <= d[j].event.event_id

\* C9 (as claimed): the frame after the data frame of a terminal event is
\* [DONE], nothing follows [DONE], and [DONE] is emitted at most once.
C9_DoneAfterTerminal ==
    \A s \in Subs :
        \A i \in DOMAIN frames[s] :
            /\ (frames[s][i].kind = "data" /\ IsTerminal(frames[s][i].event) /\ i < Len(frames[s]))
                   => frames[s][i + 1].kind = "done"
            /\ frames[s][i].kind = "done" => i = Len(frames[s])

\* C10 (as claimed): the registry holds only queues of connections that are
\* still open; a connection that ended has its queue removed.
C10_ClosedUnregistered ==
    \A s \in Subs : sub_pc[s] = "closed" => ~Registered(s)

\* C2 (as claimed): in a process started through api/main.py every event that
\* log_event puts on the handoff queue is eventually taken off it and
\* published by broadcast_event.
C2_HandoffDrained ==
    \A n \in 1 .. MaxEvents :
        (host = "main" /\ \E i \in DOMAIN sync_event_queue : sync_event_queue[i].event_id = n)
            ~> (\E i \in DOMAIN published : published[i].event_id = n)

Min(a, b) == IF a < b THEN a ELSE b

\* C6: the history buffer holds at most 1000 events, and they are the most
\* recent min(n, 1000) of the n published events in publication order (so
\* the 1001st publication evicts the oldest event and only that one).
C6_HistoryBound ==
    LET n == Len(published) IN
    /\ Len(all_events) <= 1000
    /\ all_events = SubSeq(published, n - Min(n, 1000) + 1, n)

\* C6 witness: 1001 events were published; the buffer holds the 1000 events
\* from the second to the last one.
C6_Witness ==
    /\ Len(published) = 1001
    /\ Len(all_events) = 1000
    /\ all_events[1].event_id = 2
    /\ all_events[1000].event_id = 1001


\* ---------------------------------------------------------------- C1
TerminalEvents(events) == SelectSeq(events, LAMBDA e : e.event_type \in TerminalTypes)

RunOver ==
    /\ run_pc = "done"
    /\ run_result \in { "success", "parse_failure", "provider_error" }

\* C1: every run of generate_project and of modify_project that ended in
\* success, in the terminal parse failure or in an exception of a provider
\* call has emitted exactly one terminal event (stream.complete or
\* stream.failed), and that event is the last one the run emitted.
C1_OneTerminalLast ==
    RunOver =>
        /\ Len(TerminalEvents(run_events)) = 1
        /\ run_events[Len(run_events)].event_type \in TerminalTypes

\* --------------------------------------------------------------- C13
Running == run_pc \notin { "idle", "done" }

MaxCalls == IF run_kind = "modify" THEN 3 ELSE 2

\* C13: a generate_project run issues at most 2 generation calls and a
\* modify_project run at most 3, whatever the provider and the outcomes of
\* the calls, and every run that started ends, with a result or a failure.
C13_BoundedAttempts ==
    /\ [](/\ Len(run_calls) <= MaxCalls
          /\ run_pc = "done" => run_result # "none")
    /\ (Running ~> run_pc = "done")

\* a modification run that needed all three calls has ended
C13_Witness ==
    /\ run_kind = "modify"
    /\ run_pc = "done"
    /\ Len(run_calls) = 3
    /\ Len(run_outcomes) = 3

\* --------------------------------------------------------------- C14
CallsOf(attempt) == SelectSeq(run_calls, LAMBDA c : c.attempt = attempt)

FailedToParse(outcome) == outcome \in { "malformed", "truncated" }

\* C14: in a run of either handler the stricter-prompt retry is issued at
\* most once, and it is issued exactly when the first call has returned an
\* output that failed to parse and the provider of the family is not gemini.
C14_StrictRetry ==
    /\ Len(CallsOf("strict")) <= 1
    /\ Len(CallsOf("strict")) = 1
         <=> /\ Len(run_outcomes) >= 1
             /\ FailedToParse(run_outcomes[1])
             /\ get_provider(run_family) # "gemini"

\* a modification run on a non-gemini provider has issued its stricter retry
C14_Witness ==
    /\ run_kind = "modify"
    /\ Len(CallsOf("strict")) = 1
    /\ get_provider(run_family) = "openai"

\* --------------------------------------------------------------- C15
\* the calls of the run made before any main-model fallback
LadderCalls == Len(CallsOf("first")) + Len(CallsOf("strict"))

\* every call before the fallback has returned an output that failed to
\* parse, and the model selected for the modification is not the main model
FallbackDue ==
    /\ run_kind = "modify"
    /\ LadderCalls >= 1
    /\ Len(run_outcomes) >= LadderCalls
    /\ \A i \in 1 .. LadderCalls : FailedToParse(run_outcomes[i])
    /\ run_calls[1].model # get_main_model(run_family)

\* C15: modify_project issues one more call, on the main model of the family,
\* exactly when all earlier calls of the run failed to parse and the model
\* selected for the modification is not the main model; that call is the
\* last of the run; generate_project never issues such a call.
C15_MainModelFallback ==
    /\ Len(CallsOf("fallback")) <= 1
    /\ Len(CallsOf("fallback")) = 1 <=> FallbackDue
    /\ Len(CallsOf("fallback")) = 1 =>
          /\ run_calls[Len(run_calls)].attempt = "fallback"
          /\ run_calls[Len(run_calls)].model = get_main_model(run_family)
    /\ run_kind = "generate" => Len(CallsOf("fallback")) = 0

\* a modification run has ended after its main-model fallback
C15_Witness ==
    /\ run_kind = "modify"
    /\ run_pc = "done"
    /\ Len(CallsOf("fallback")) = 1

\* --------------------------------------------------------------- C16
\* C16: when a generation call of either handler raises, that call is the
\* last call of the run (no stricter-prompt retry, no main-model fallback
\* follows) and the run has ended with a failure.
C16_RaiseEndsRun ==
    \A i \in DOMAIN run_outcomes :
        run_outcomes[i] = "raise" =>
            /\ i = Len(run_outcomes)
            /\ Len(run_calls) = i
            /\ run_pc = "done"
            /\ run_result = "provider_error"

\* the stricter-prompt call of a run raised
C16_Witness ==
    /\ Len(run_outcomes) = 2
    /\ run_outcomes[2] = "raise"
    /\ run_calls[2].attempt = "strict"

\* --------------------------------------------------------------- C17
\* a generate_project run of an Anthropic family has ended after a first
\* output that failed to parse and a stricter-prompt output that parsed
AnthropicRetryParsed ==
    /\ run_kind = "generate"
    /\ get_provider(run_family) = "anthropic"
    /\ run_pc = "done"
    /\ Len(run_outcomes) = 2
    /\ FailedToParse(run_outcomes[1])
    /\ ParseOk(run_outcomes[2])

\* C17: such a run returns a success result after exactly two generation
\* calls, and its events hold exactly one stream.complete, as the last
\* event, and no stream.failed.
C17_RetryThenSuccess ==
    AnthropicRetryParsed =>
        /\ run_result = "success"
        /\ Len(run_calls) = 2
        /\ Len(TerminalEvents(run_events)) = 1
        /\ run_events[Len(run_events)].event_type = "stream.complete"

\* --------------------------------------------------------------- C18
ErrorEvents == SelectSeq(run_events, LAMBDA e : e.event_type = "error")

\* the number of calls in the retry ladder of the run
LadderLength ==
    1 + (IF get_provider(run_family) # "gemini" THEN 1 ELSE 0)
      + (IF run_kind = "modify" /\ run_calls[1].model # get_main_model(run_family)
         THEN 1 ELSE 0)

\* C18: a run reports a terminal parse failure only when every call of its
\* retry ladder was made and returned an output that failed to parse; such a
\* run has emitted exactly one error event (scope validation, actions retry
\* and ask_user) and ended with a failure, and in generate_project the run
\* ends with progress.update(parse, failed), error, stream.failed in this
\* order. A run in which some output parsed, or that has not reported the
\* failure, has emitted no error event.
C18_ParseFailureReported ==
    /\ run_result = "parse_failure" =>
          /\ run_pc = "done"
          /\ Len(run_calls) = LadderLength
          /\ Len(run_outcomes) = LadderLength
          /\ \A i \in DOMAIN run_outcomes : FailedToParse(run_outcomes[i])
          /\ Len(ErrorEvents) = 1
          /\ ErrorEvents[1].scope = "validation"
          /\ ErrorEvents[1].actions = << "retry", "ask_user" >>
          /\ run_kind = "generate" =>
                LET n == Len(run_events) IN
                /\ n >= 3
                /\ run_events[n - 2] = Progress("parse", "failed")
                /\ run_events[n - 1] = ErrorEvent
                /\ run_events[n].event_type = "stream.failed"
    /\ run_result # "parse_failure" => Len(ErrorEvents) = 0
    /\ (\E i \in DOMAIN run_outcomes : ParseOk(run_outcomes[i])) => Len(ErrorEvents) = 0

\* a generation run has reported the failure after both calls of its ladder
C18_Witness ==
    /\ run_kind = "generate"
    /\ run_result = "parse_failure"
    /\ Len(run_outcomes) = 2
    /\ run_outcomes[2] = "truncated"

\* --------------------------------------------------------------- C11
\* C11: a connection opened with model_name = M emits no data frame, replayed
\* or live, for an event whose model name is set and differs from M when
\* letter case is ignored.
C11_ModelFilteredFrames ==
    \A s \in Subs :
        Truthy(sub_filter[s][3]) =>
            \A i \in DOMAIN frames[s] :
                frames[s][i].kind = "data" =>
                    \/ ~Truthy(EventModelName(frames[s][i].event))
                    \/ Lower(EventModelName(frames[s][i].event)) = Lower(sub_filter[s][3])

\* --------------------------------------------------------------- C19
\* C19: when put() raises for one subscriber during a broadcast_event call,
\* the event is in the history buffer, every other registered subscriber
\* whose filter matches still has it put on its queue, and the call returns
\* to the processor loop, which keeps running.
C19_FailureIsolated ==
    [][\A q \in Subs :
          ProcessSyncEventQueueFailing({ q }) =>
              /\ InSeq(NewEvent, all_events')
              /\ processor_task' = "running"
              /\ \A s \in Subs \ { q } :
                    (/\ Registered(s)
                     /\ PlainFilter(RegisteredFilter(s))
                     /\ LenientModelMatch(RegisteredFilter(s), NewEvent)) => Got(s)
              /\ GotNothing(q)]_vars

\* two registered subscribers match a published event; the put on the first
\* one's queue raised, the second one holds the event
C19_Witness ==
    /\ Registered(1) /\ Registered(2)
    /\ queues[1] = << >>
    /\ Len(queues[2]) = 1
    /\ LenientModelMatch(RegisteredFilter(1), queues[2][1])
    /\ InSeq(queues[2][1], all_events)

\* --------------------------------------------------------------- C20
\* C20: after unregister_stream has removed a subscriber's queue no
\* broadcast_event call puts an event on it; such a call still puts the
\* event on the queue of every registered subscriber whose filter matches
\* and returns to the processor loop, which keeps running. (broadcast_event
\* has no suspension point: put() on an unbounded asyncio.Queue returns at
\* once, so a removal falls between two calls, never inside one.)
C20_NoPutAfterUnregister ==
    [][Broadcasting =>
         /\ processor_task' = "running"
         /\ \A s \in Subs :
               /\ sub_pc[s] = "closed" => GotNothing(s)
               /\ (/\ sub_pc[s] = "api"
                   /\ PlainFilter(RegisteredFilter(s))
                   /\ LenientModelMatch(RegisteredFilter(s), NewEvent)) => Got(s)]_vars

\* the first subscriber was unregistered before an event that matches its
\* filter was published: its queue is empty, the second subscriber holds it
C20_Witness ==
    /\ sub_pc[1] = "closed"
    /\ queues[1] = << >>
    /\ sub_pc[2] = "api"
    /\ Len(queues[2]) >= 1
    /\ LenientModelMatch(sub_filter[1], queues[2][1])

\* --------------------------------------------------------------- C12
InProviderCall ==
    run_pc \in { "generate_call", "generate_retry_call", "modify_call",
                 "modify_retry_call", "modify_fallback_call" }

\* C12: while a run waits for a provider call to return, the processor task
\* can take its step: with the task running and an event of the run in the
\* handoff queue, publishing that event is possible before the call returns.
C12_DrainDuringProviderCall ==
    (/\ InProviderCall
     /\ processor_task = "running"
     /\ sync_event_queue # << >>) => ENABLED ProcessSyncEventQueue

\* --------------------------------------------------------------- C21
\* C21: unregister_stream called for a queue that is not in the registry (a
\* second call after the removal, with the same or another filter, or a call
\* for a queue that never was registered) raises nothing and leaves the
\* registry, every subscriber queue and the history buffer as they were.
C21_UnregisterIdempotent ==
    [][\A s \in Subs :
          (sub_pc[s] # "closed_again" /\ sub_pc'[s] = "closed_again") =>
              /\ streams' = streams
              /\ queues' = queues
              /\ all_events' = all_events]_vars

\* the first subscriber was unregistered twice while the second, registered
\* under the same key, is still in the registry and holds an event
C21_Witness ==
    /\ sub_pc[1] = "closed_again"
    /\ sub_pc[2] = "api"
    /\ sub_filter[1] = sub_filter[2]
    /\ Registered(2)
    /\ queues[2] # << >>

\* --------------------------------------------------------------- C22
\* the events of the frames a connection replayed from the history
ReplayedEvents(s) ==
    LET h == SelectSeq(frames[s], LAMBDA f : f.kind = "data" /\ f.from = "history")
    IN [i \in 1..Len(h) |-> h[i].event]

\* what the connection replays: the replayed events and those still to come
Replay(s) == ReplayedEvents(s) \o sub_hist[s]

\* the generator of connection s takes its first step
ReadsHistory(s) == sub_pc[s] = "registered" /\ sub_pc'[s] \in { "replay", "live" }

\* connection s is open before and after the step
StaysOpen(s) ==
    /\ sub_pc[s] \in { "replay", "live" }
    /\ sub_pc'[s] \in { "replay", "live", "terminal" }

\* C22 (as claimed): the history a connection reads is exactly the buffered
\* events that match its filter on every field it sets (an event without a
\* value for a filtered field not matching), in buffer order.
C22_StrictHistory ==
    [][\A s \in Subs : ReadsHistory(s) =>
          Replay(s)' = SelectSeq(all_events, LAMBDA e : StrictMatch(sub_filter[s], e))]_vars

\* C22 (amended): get_historical_events returns, in buffer order, exactly the
\* buffered events that match the filter on project_id and conversation_id
\* exactly and on the model family case-insensitively, where an event that
\* carries no model name matches every model filter; the call changes neither
\* the buffer nor a subscriber queue; and a connection that stays open emits
\* these events as its replay, one frame each in that order, before it emits
\* any other frame.
C22_HistoryMatch ==
    [][\A s \in Subs :
          /\ ReadsHistory(s) =>
                /\ Replay(s)' = SelectSeq(all_events,
                                          LAMBDA e : LenientModelMatch(sub_filter[s], e))
                /\ all_events' = all_events
                /\ queues' = queues
          /\ StaysOpen(s) =>
                /\ Replay(s)' = Replay(s)
                /\ (frames'[s] # frames[s] /\ sub_hist[s] # << >>) =>
                       sub_hist'[s] = Tail(sub_hist[s])]_vars

\* a connection opened with a model filter after two events were published, one
\* of another family and one without a model name, is through with its replay:
\* it replayed the second and not the first
C22_Witness ==
    \E s \in Subs :
        /\ sub_pc[s] = "replay"
        /\ sub_hist[s] = << >>
        /\ sub_filter[s] = << None, None, << "gemini" >> >>
        /\ Len(all_events) = 2
        /\ Len(ReplayedEvents(s)) = 1
        /\ ~Truthy(EventModelName(ReplayedEvents(s)[1]))
        /\ \E i \in DOMAIN all_events : all_events[i].model_name = << "Claude" >>

\* --------------------------------------------------------------- C23
\* register_stream is called for queue s in this step
Registering(s) == sub_pc[s] = "idle" /\ sub_pc'[s] = "api"

\* the list of a key of the registry, empty for a key it does not have
ListOf(reg, k) == IF k \in DOMAIN reg THEN reg[k] ELSE << >>

\* C23: register_stream returns a queue that is new (not in the registry
\* before) and empty, appends exactly that queue to the list of the key of the
\* given filter and changes no other list, and leaves the history buffer and
\* every queue's content as they were; a broadcast puts nothing on a queue that
\* is not registered, so no event published before the registration reaches it.
C23_RegisterAddsNewQueue ==
    [][\A s \in Subs :
          /\ Registering(s) =>
                LET key == get_stream_key(sub_filter'[s][1], sub_filter'[s][2],
                                          sub_filter'[s][3]) IN
                /\ ~Registered(s)
                /\ queues[s] = << >>
                /\ queues' = queues
                /\ all_events' = all_events
                /\ DOMAIN streams' = DOMAIN streams \cup { key }
                /\ streams'[key] = Append(ListOf(streams, key), s)
                /\ \A k \in DOMAIN streams \ { key } : streams'[k] = streams[k]
          /\ (Broadcasting /\ ~Registered(s)) => GotNothing(s)]_vars

\* the second subscriber registered under the key of the first after an event
\* was published that the first one got: its queue is empty
C23_Witness ==
    /\ sub_pc[1] = "api"
    /\ sub_pc[2] = "api"
    /\ sub_filter[1] = sub_filter[2]
    /\ Registered(1)
    /\ Registered(2)
    /\ Len(all_events) = 1
    /\ queues[1] = all_events
    /\ queues[2] = << >>

\* --------------------------------------------------------------- C24
\* the wait of some connection for the next event times out in this step
TimesOut == keepalives' # keepalives

\* C24: when the wait of a connection for the next event times out, the
\* connection emits exactly one frame, a keepalive comment and not a data
\* frame; its queue is registered before and after with the same content, the
\* registry, every queue and the history buffer are unchanged, and the
\* connection waits for the next event again.
C24_KeepaliveOnly ==
    [][TimesOut =>
         \E s \in Subs :
             /\ Waiting(s)
             /\ Len(frames'[s]) = Len(frames[s]) + 1
             /\ SubSeq(frames'[s], 1, Len(frames[s])) = frames[s]
             /\ frames'[s][Len(frames'[s])].kind = "keepalive"
             /\ \A t \in Subs \ { s } : frames'[t] = frames[t]
             /\ Registered(s)
             /\ streams' = streams
             /\ queues' = queues
             /\ all_events' = all_events
             /\ Waiting(s)']_vars

\* a connection replayed an event, its wait timed out and it emitted the
\* keepalive, went on waiting and emitted the event published after that:
\* replayed data, keepalive, live data
C24_Witness ==
    \E s \in Subs :
        /\ Len(frames[s]) = 3
        /\ frames[s][1].kind = "data" /\ frames[s][1].from = "history"
        /\ frames[s][2].kind = "keepalive"
        /\ frames[s][3].kind = "data" /\ frames[s][3].from = "live"
        /\ Registered(s)
        /\ queues[s] = << >>

\* --------------------------------------------------------------- C25
\* how many events of a type the run has emitted
Emitted(event_type) ==
    Len(SelectSeq(run_events, LAMBDA e : e.event_type = event_type))

\* a generation call of the run is in flight
GenerationCallPending == run_pc \in { "generate_call", "generate_retry_call" }

\* C25 (as claimed): in a generate_project run thinking.start and thinking.end
\* are each emitted at most once, every generation call (the stricter-prompt
\* retry too) is in flight only after thinking.start and before thinking.end,
\* and a run that has ended and emitted thinking.start emitted thinking.end.
C25_CallsInsideThinking ==
    run_kind = "generate" =>
        /\ Emitted("thinking.start") <= 1
        /\ Emitted("thinking.end") <= 1
        /\ GenerationCallPending =>
               (Emitted("thinking.start") = 1 /\ Emitted("thinking.end") = 0)
        /\ run_pc = "done" => Emitted("thinking.end") = Emitted("thinking.start")

\* --------------------------------------------------------------- C26
PhaseOrder == << "prepare", "generate", "parse", "save" >>

\* the phase ids a progress.init event lists, in its order
PhaseIds(init) == [i \in DOMAIN init.steps |-> init.steps[i].id]

\* C26: a generate_project run emits progress.init at most once, every
\* progress.update of the run comes after it, and it lists the phases
\* prepare, generate, parse, save in that order.
C26_ProgressInitFirst ==
    run_kind = "generate" =>
        /\ Emitted("progress.init") <= 1
        /\ \A i \in DOMAIN run_events :
               /\ run_events[i].event_type = "progress.update" =>
                      \E j \in 1 .. (i - 1) : run_events[j].event_type = "progress.init"
               /\ run_events[i].event_type = "progress.init" =>
                      PhaseIds(run_events[i]) = PhaseOrder

\* a run that opened its progress and went through to the end
C26_Witness ==
    /\ run_kind = "generate"
    /\ run_result = "success"
    /\ Emitted("progress.init") = 1
    /\ Emitted("progress.update") = 7

\* --------------------------------------------------------------- C27
\* the position of a phase in the order of the phases
PhaseIndex(step) == CHOOSE i \in DOMAIN PhaseOrder : PhaseOrder[i] = step

Closing(status) == status \in { "completed", "failed" }

IsUpdate(i) == run_events[i].event_type = "progress.update"

\* the event at position i reports the phase in progress
OpensPhase(i, step) ==
    \/ /\ IsUpdate(i)
       /\ run_events[i].step = step
       /\ run_events[i].status = "in_progress"
    \/ /\ run_events[i].event_type = "progress.init"
       /\ \E k \in DOMAIN run_events[i].steps :
              /\ run_events[i].steps[k].id = step
              /\ run_events[i].steps[k].status = "in_progress"

\* C27: in a generate_project run no two progress.update events carry the same
\* phase and status; a phase is reported completed or failed only after it was
\* reported in_progress by progress.init or a progress.update; a phase reported
\* completed or failed is not updated again; the updates follow the order
\* prepare, generate, parse, save; and before a stream.complete the run has
\* reported each of the four phases completed.
C27_PhasesAdvance ==
    run_kind = "generate" =>
        \A i \in DOMAIN run_events :
            /\ IsUpdate(i) =>
                   /\ \A j \in DOMAIN run_events :
                          (i < j /\ IsUpdate(j)) =>
                              /\ ~(/\ run_events[j].step = run_events[i].step
                                   /\ run_events[j].status = run_events[i].status)
                              /\ Closing(run_events[i].status) =>
                                     run_events[j].step # run_events[i].step
                              /\ PhaseIndex(run_events[i].step)
                                     <= PhaseIndex(run_events[j].step)
                   /\ Closing(run_events[i].status) =>
                          \E j \in 1 .. (i - 1) : OpensPhase(j, run_events[i].step)
            /\ run_events[i].event_type = "stream.complete" =>
                   \A k \in DOMAIN PhaseOrder : \E j \in 1 .. (i - 1) :
                       /\ IsUpdate(j)
                       /\ run_events[j].step = PhaseOrder[k]
                       /\ run_events[j].status = "completed"

\* a run that needed the stricter-prompt retry and ended with stream.complete
C27_Witness ==
    /\ run_kind = "generate"
    /\ run_result = "success"
    /\ Len(run_calls) = 2
    /\ Emitted("stream.complete") = 1
    /\ Emitted("progress.update") = 7

\* --------------------------------------------------------------- C28
\* C28 (as claimed): one invocation of generate_text, by a classification
\* helper or for the generation of a project, calls the provider at most once.
C28_OneProviderCall == Len(provider_calls) <= 1

\* --------------------------------------------------------------- C29
KnownFamilies ==
    { << "gemini" >>, << "anthropic" >>, << "claude" >>, << "openai" >>, << "gpt" >> }

\* the family is None, empty, or none of the known names once trimmed and
\* compared without regard to case
UnknownFamily(f) == ~Truthy(f) \/ Lower(Strip(f)) \notin KnownFamilies

\* C29: for a family that is None, empty or not one of gemini, anthropic,
\* claude, openai, gpt (trimmed, case-insensitive), get_provider,
\* get_router_model and get_main_model return the provider, the router model
\* and the main model of the gemini family, and do not raise.
C29_DefaultFamily ==
    (/\ call.fn \in { "get_provider", "get_router_model", "get_main_model" }
     /\ UnknownFamily(call.family)) =>
        /\ ~result.raised
        /\ call.fn = "get_provider" => result.value = ROUTER_CONFIG.gemini.provider
        /\ call.fn = "get_router_model" => result.value = ROUTER_CONFIG.gemini.router_model
        /\ call.fn = "get_main_model" => result.value = ROUTER_CONFIG.gemini.main_model

\* the main model of a family the map does not know was looked up
C29_Witness ==
    /\ call.fn = "get_main_model"
    /\ call.family = << "mistral" >>
    /\ result.value = "gemini-3-pro-preview"

\* --------------------------------------------------------------- C30
\* the model the claim gives a modification: the family's main model exactly
\* for a complexity that is 'complex' up to case, else its router model
ModelForComplexity(f, c) ==
    IF Lower(c) = << "complex" >> THEN get_main_model(f) ELSE get_router_model(f)

\* C30 (as claimed): get_modification_model returns the family's main model
\* exactly when the complexity is 'complex' up to case and its router model for
\* every other complexity, an unset one too; generate_text_unified called with
\* operation_type 'modification' passes that same model to the adapter.
C30_ModificationModel ==
    /\ call.fn = "get_modification_model" =>
           result.value = ModelForComplexity(call.family, call.complexity)
    /\ (call.fn = "generate_text_unified" /\ call.operation_type = "modification") =>
           provider_calls = << ModelForComplexity(call.family, call.complexity) >>

\* --------------------------------------------------------------- C31
LookupFns == { "get_provider", "get_router_model", "get_main_model" }

\* the family a name stands for: trimmed, without regard to case, the aliases
\* anthropic / claude and openai / gpt taken together, everything else gemini
FamilyOf(f) ==
    IF UnknownFamily(f) THEN "gemini"
    ELSE LET name == Lower(Strip(f)) IN
         IF name \in { << "anthropic" >>, << "claude" >> } THEN "claude"
         ELSE IF name \in { << "openai" >>, << "gpt" >> } THEN "gpt"
         ELSE "gemini"

\* what a lookup function reads from a row of ROUTER_CONFIG
FieldOf(fn, row) ==
    IF fn = "get_provider" THEN row.provider
    ELSE IF fn = "get_router_model" THEN row.router_model
    ELSE row.main_model

\* C31: two lookups of router_config for names of the same family (the same
\* name again, a case variant, an alias) return values of one and the same row
\* of ROUTER_CONFIG, the row of that family: never the provider of one family
\* with a model of another, and the same value for the same function.
C31_OneRowPerFamily ==
    [][(/\ call.fn \in LookupFns
        /\ call'.fn \in LookupFns
        /\ FamilyOf(call.family) = FamilyOf(call'.family)) =>
           LET row == ROUTER_CONFIG[FamilyOf(call.family)] IN
           /\ result.value = FieldOf(call.fn, row)
           /\ result'.value = FieldOf(call'.fn, row)]_vars

\* the provider of an alias written in capitals with blanks around it
C31_Witness ==
    /\ call.fn = "get_provider"
    /\ call.family = << " ", "CLAUDE", " " >>
    /\ result.value = "anthropic"

\* --------------------------------------------------------------- C32
\* the text decodes to a JSON value
Decodes(text) == text.atom = "json"

\* the first item of a list that is an object {"project": {...}}
RECURSIVE FirstWrapped(_, _)
FirstWrapped(items, i) ==
    IF i > Len(items) THEN JNull
    ELSE IF IsDict(items[i]) /\ Has(items[i], "project") /\ IsDict(Get(items[i], "project"))
    THEN Get(items[i], "project")
    ELSE FirstWrapped(items, i + 1)

\* the inner object of the three shapes, JNull for every other shape
InnerOf(raw) ==
    IF IsDict(raw) /\ Has(raw, "project") /\ IsDict(Get(raw, "project"))
    THEN Get(raw, "project")
    ELSE IF IsList(raw) THEN FirstWrapped(raw.vals, 1)
    ELSE IF IsDict(raw) /\ Has(raw, "files") THEN raw
    ELSE JNull

\* C32 (as claimed): parse_project_json does not raise; it returns None or a
\* mapping; for a text that decodes to {"project": {...}}, to a list that
\* contains such an object, or to an object with a files field it returns the
\* inner object, and for every other text None.
C32_InnerProject ==
    call.fn = "parse_project_json" =>
        /\ ~result.raised
        /\ result.value = JNull \/ IsDict(result.value)
        /\ result.value = (IF Decodes(call.input) THEN InnerOf(call.input.vals[1]) ELSE JNull)

\* --------------------------------------------------------------- C33
\* the files value of the project normalize_project was given
GivenFiles ==
    LET first == IF IsList(call.input) /\ call.input.vals # << >>
                 THEN call.input.vals[1] ELSE call.input
        inner == IF IsDict(first) /\ Has(first, "project") THEN Get(first, "project")
                 ELSE first
    IN IF IsDict(inner) /\ Has(inner, "files") THEN Get(inner, "files") ELSE JNull

\* C33 (as claimed): normalize_project returns the project with its files
\* mapping unchanged if files is a mapping, with the one mapping of all entries
\* if files is a list of objects, and raises for every other files value, a
\* list with an element that is not an object among them.
C33_FilesNormalized ==
    call.fn = "normalize_project" =>
        LET files == GivenFiles IN
        IF IsDict(files)
        THEN ~result.raised /\ Get(result.value, "files") = files
        ELSE IF IsList(files) /\ \A i \in DOMAIN files.vals : IsDict(files.vals[i])
        THEN /\ ~result.raised
             /\ IsDict(Get(result.value, "files"))
             /\ \A i \in DOMAIN files.vals : \A k \in DOMAIN files.vals[i].keys :
                    /\ Has(Get(result.value, "files"), files.vals[i].keys[k])
                    /\ Get(Get(result.value, "files"), files.vals[i].keys[k])
                           = files.vals[i].vals[k]
        ELSE result.raised

\* ------------------------------------------------------- the global manager
\* get_stream_manager, up to the test of `_stream_manager is None`: a thread
\* that finds an instance returns it, one that finds None goes on to construct.
\* Nothing keeps another thread from running between the test and the store.
GetStreamManagerTest(t) ==
    /\ getter_pc[t] = "idle"
    /\ getter_calls[t] < MaxGetCalls
    /\ getter_calls' = [getter_calls EXCEPT ![t] = @ + 1]
    /\ IF stream_manager # NoManager
       THEN /\ getter_got' = [getter_got EXCEPT ![t] = stream_manager]
            /\ getter_pc' = getter_pc
       ELSE /\ getter_pc' = [getter_pc EXCEPT ![t] = "constructing"]
            /\ getter_got' = getter_got
    /\ UNCHANGED << stream_manager, managers >>
    /\ UNCHANGED << bvars, runvars, lvars >>

\* get_stream_manager, `_stream_manager = StreamManager()` and the return
GetStreamManagerCreate(t) ==
    /\ getter_pc[t] = "constructing"
    /\ managers' = managers + 1
    /\ stream_manager' = managers + 1
    /\ getter_got' = [getter_got EXCEPT ![t] = managers + 1]
    /\ getter_pc' = [getter_pc EXCEPT ![t] = "idle"]
    /\ UNCHANGED getter_calls
    /\ UNCHANGED << bvars, runvars, lvars >>

NextGlobal ==
    \/ \E t \in Threads : GetStreamManagerTest(t)
    \/ \E t \in Threads : GetStreamManagerCreate(t)

SpecGlobal == Init /\ [][NextGlobal]_vars

\* C34: get_stream_manager returns the same StreamManager on every call, first
\* calls made concurrently from different threads included: at most one
\* StreamManager is ever constructed, and any two threads that have a manager
\* have the same one.
C34_OneManager ==
    /\ managers <= 1
    /\ \A t, u \in Threads :
        (getter_got[t] # NoManager /\ getter_got[u] # NoManager)
            => getter_got[t] = getter_got[u]

\* ---------------------------------------------------------------- the wire
\* The text of a connection is a sequence of characters; a name or an id part
\* without special characters stands as one character. Python values that
\* json.dumps is given: None, a str and a dict with str keys.
PyNone == [kind |-> "null", keys |-> << >>, vals |-> << >>, text |-> << >>]

PyStr(t) == [kind |-> "str", keys |-> << >>, vals |-> << >>, text |-> t]

PyDict(keys, vals) == [kind |-> "dict", keys |-> keys, vals |-> vals, text |-> << >>]

OptStr(s) == IF s = None THEN PyNone ELSE PyStr(s)

\* the dict log_event queued: EventEnvelope.to_dict() and, when the payload
\* names a model, the top-level model_name added to it
EventObject(event) ==
    LET payload == PyDict(<< << "model_name" >> >>, << OptStr(event.payload_model_name) >>)
        keys == << << "event_id" >>, << "event_type" >>, << "project_id" >>,
                   << "conversation_id" >>, << "payload" >> >>
        vals == << PyStr(<< ToString(event.event_id) >>), PyStr(<< event.event_type >>),
                   OptStr(event.project_id), OptStr(event.conversation_id), payload >>
    IN IF event.model_name = None
       THEN PyDict(keys, vals)
       ELSE PyDict(Append(keys, << "model_name" >>), Append(vals, PyStr(event.model_name)))

\* error_event of the except clause of event_generator
ErrorObject ==
    PyDict(<< << "event_type" >>, << "message" >> >>,
           << PyStr(<< "error" >>), PyStr(<< "Stream error: " >>) >>)

\* mutant: strings are written as they are
EscapeNothing(t) == t

\* json.dumps writes a quote, a backslash and a newline of a str escaped
EscapeAtom(a) ==
    IF a = "\"" THEN << "\\", "\"" >>
    ELSE IF a = "\\" THEN << "\\", "\\" >>
    ELSE IF a = "\n" THEN << "\\", "n" >>
    ELSE << a >>

RECURSIVE Escape(_)
Escape(t) == IF t = << >> THEN << >> ELSE EscapeAtom(Head(t)) \o Escape(Tail(t))

Quoted(t) == << "\"" >> \o Escape(t) \o << "\"" >>

RECURSIVE json_dumps(_), DumpMembers(_, _, _)
\* the members of a dict, separated by ", ", key and value by ": "
DumpMembers(keys, vals, i) ==
    IF i > Len(keys) THEN << >>
    ELSE (IF i > 1 THEN << ",", " " >> ELSE << >>)
         \o Quoted(keys[i]) \o << ":", " " >> \o json_dumps(vals[i])
         \o DumpMembers(keys, vals, i + 1)

\* json.dumps(value) with the default separators
json_dumps(v) ==
    IF v.kind = "null" THEN << "null" >>
    ELSE IF v.kind = "str" THEN Quoted(v.text)
    ELSE << "{" >> \o DumpMembers(v.keys, v.vals, 1) \o << "}" >>

\* what event_generator yields for a frame
Wire(frame) ==
    IF frame.kind = "data"
    THEN << "data: " >> \o json_dumps(EventObject(frame.event)) \o << "\n", "\n" >>
    ELSE IF frame.kind = "done" THEN << "data: ", "[DONE]", "\n", "\n" >>
    ELSE IF frame.kind = "keepalive" THEN << ": keepalive", "\n", "\n" >>
    ELSE << "event: error", "\n", "data: " >> \o json_dumps(ErrorObject) \o << "\n", "\n" >>

RECURSIVE WireAll(_)
\* the text a connection has been sent
WireAll(fs) == IF fs = << >> THEN << >> ELSE Wire(Head(fs)) \o WireAll(Tail(fs))

\* ---- the client of the docstring of stream_events: EventSource and JSON.parse
ParseFail == [ok |-> FALSE, value |-> PyNone, rest |-> << >>]

ParseOK(v, rest) == [ok |-> TRUE, value |-> v, rest |-> rest]

RECURSIVE SkipSpaces(_)
SkipSpaces(t) == IF t # << >> /\ Head(t) = " " THEN SkipSpaces(Tail(t)) ELSE t

\* the smallest number of a non-empty set of numbers
Least(numbers) == CHOOSE i \in numbers : \A j \in numbers : i <= j

\* the number of backslashes that stand immediately before position i of t
Backslashes(t, i) ==
    LET others == { j \in 1 .. (i - 1) : t[j] # "\\" }
        last == IF others = { } THEN 0 ELSE CHOOSE j \in others : \A k \in others : k <= j
    IN i - 1 - last

\* position i of t follows a backslash that escapes it
Escaped(t, i) == Backslashes(t, i) % 2 = 1

\* the characters of a string body with the escapes undone
Unescape(body) ==
    LET positions == [i \in DOMAIN body |-> i]
        kept == SelectSeq(positions, LAMBDA i : body[i] # "\\" \/ Escaped(body, i))
    IN [j \in DOMAIN kept |->
            IF body[kept[j]] = "n" /\ Escaped(body, kept[j]) THEN "\n" ELSE body[kept[j]]]

\* a JSON string after its opening quote, up to the closing quote, which is
\* the first quote no backslash escapes; a raw newline or an escape other
\* than \", \\ and \n inside it is an error
ParseString(t) ==
    LET closing == { i \in DOMAIN t : t[i] = "\"" /\ ~Escaped(t, i) } IN
        IF closing = { } THEN ParseFail
        ELSE LET end == Least(closing)
                 body == SubSeq(t, 1, end - 1)
             IN IF \E i \in DOMAIN body :
                        \/ body[i] = "\n"
                        \/ Escaped(body, i) /\ body[i] \notin { "\"", "\\", "n" }
                THEN ParseFail
                ELSE ParseOK(PyStr(Unescape(body)), SubSeq(t, end + 1, Len(t)))

RECURSIVE ParseValue(_), ParseMembers(_, _, _)
\* a JSON value: null, a string or an object
ParseValue(text) ==
    LET t == SkipSpaces(text) IN
        IF t = << >> THEN ParseFail
        ELSE IF Head(t) = "null" THEN ParseOK(PyNone, Tail(t))
        ELSE IF Head(t) = "\"" THEN ParseString(Tail(t))
        ELSE IF Head(t) = "{"
             THEN LET u == SkipSpaces(Tail(t)) IN
                      IF u # << >> /\ Head(u) = "}"
                      THEN ParseOK(PyDict(<< >>, << >>), Tail(u))
                      ELSE ParseMembers(u, << >>, << >>)
        ELSE ParseFail

\* the members of an object, after "{" or ","
ParseMembers(text, keys, vals) ==
    LET t == SkipSpaces(text) IN
        IF t = << >> THEN ParseFail
        ELSE IF Head(t) # "\"" THEN ParseFail
        ELSE LET k == ParseString(Tail(t))
                 c == SkipSpaces(k.rest)
             IN IF ~k.ok \/ c = << >> THEN ParseFail
                ELSE IF Head(c) # ":" THEN ParseFail
                ELSE LET v == ParseValue(Tail(c))
                         d == SkipSpaces(v.rest)
                         ks == Append(keys, k.value.text)
                         vs == Append(vals, v.value)
                     IN IF ~v.ok \/ d = << >> THEN ParseFail
                        ELSE IF Head(d) = "," THEN ParseMembers(Tail(d), ks, vs)
                        ELSE IF Head(d) = "}" THEN ParseOK(PyDict(ks, vs), Tail(d))
                        ELSE ParseFail

\* JSON.parse(text): the value, or that the text is not JSON
json_loads(text) ==
    LET r == ParseValue(text) IN
        IF r.ok /\ SkipSpaces(r.rest) = << >> THEN ParseOK(r.value, << >>) ELSE ParseFail

RECURSIVE SplitBlocks(_)
\* the text cut at blank lines; what follows the last blank line is not complete
SplitBlocks(t) ==
    LET blank == { i \in 1 .. (Len(t) - 1) : t[i] = "\n" /\ t[i + 1] = "\n" } IN
        IF blank = { } THEN << >>
        ELSE << SubSeq(t, 1, Least(blank) - 1) >>
             \o SplitBlocks(SubSeq(t, Least(blank) + 2, Len(t)))

RECURSIVE SplitLines(_)
SplitLines(t) ==
    LET newlines == { i \in DOMAIN t : t[i] = "\n" } IN
        IF newlines = { } THEN << t >>
        ELSE << SubSeq(t, 1, Least(newlines) - 1) >>
             \o SplitLines(SubSeq(t, Least(newlines) + 1, Len(t)))

RECURSIVE DataOf(_)
\* the data of a block: its "data: " lines, joined by newlines
DataOf(lines) ==
    IF lines = << >> THEN << >>
    ELSE LET rest == DataOf(Tail(lines))
             line == Head(lines)
         IN IF line # << >> /\ Head(line) = "data: "
            THEN << Tail(line) >> \o rest
            ELSE rest

HasField(lines, field) == \E i \in DOMAIN lines : lines[i] # << >> /\ lines[i][1] = field

RECURSIVE JoinLines(_)
JoinLines(ls) ==
    IF ls = << >> THEN << >>
    ELSE IF Len(ls) = 1 THEN ls[1]
    ELSE ls[1] \o << "\n" >> \o JoinLines(Tail(ls))

RECURSIVE OnMessage(_)
\* what onmessage of the client computes, block after block, until [DONE]:
\* comments and blocks with an event name do not reach it
OnMessage(blocks) ==
    IF blocks = << >> THEN << >>
    ELSE LET lines == SplitLines(Head(blocks))
             data == JoinLines(DataOf(lines))
         IN IF ~HasField(lines, "data: ") \/ HasField(lines, "event: error")
            THEN OnMessage(Tail(blocks))
            ELSE IF data = << "[DONE]" >> THEN << >>
            ELSE << json_loads(data) >> \o OnMessage(Tail(blocks))

\* the events of the client of a connection, from the text it was sent
Received(s) == OnMessage(SplitBlocks(WireAll(frames[s])))

\* ids and model names with the characters JSON and the framing give a meaning
WireEnvelopes ==
    { [event_type |-> "chat.message", project_id |-> << "p", "\"", "1" >>,
       conversation_id |-> << "c", "\n", "\n", "data: ", "x" >>,
       payload_model_name |-> << "\\", "n" >>],
      [event_type |-> "chat.message", project_id |-> << "\"", "}", ",", " " >>,
       conversation_id |-> None, payload_model_name |-> None],
      [event_type |-> "stream.complete", project_id |-> << "p1" >>,
       conversation_id |-> << "\\", "\"", "null" >>, payload_model_name |-> << "Gemini" >>] }

\* the connection whose text is followed
WireConnection == CHOOSE s \in Subs : \A t \in Subs : s <= t

NextWire ==
    \/ StartProcessor
    \/ \E envelope \in WireEnvelopes : LogEvent(envelope)
    \/ ProcessSyncEventQueue
    \/ StreamEvents(WireConnection, None, None, None)
    \/ GeneratorStart(WireConnection)
    \/ ReplayNext(WireConnection)
    \/ LiveEvent(WireConnection)
    \/ Keepalive(WireConnection)
    \/ EmitDone(WireConnection)

SpecWire == Init /\ [][NextWire]_vars

RECURSIVE DataEvents(_)
\* the events of the data frames of a connection, in the order of the frames
DataEvents(fs) ==
    IF fs = << >> THEN << >>
    ELSE IF Head(fs).kind = "data" THEN << Head(fs).event >> \o DataEvents(Tail(fs))
    ELSE DataEvents(Tail(fs))

\* C35: parsing the JSON of the data frame emitted for a published event gives
\* an object equal to the event, every envelope field and the payload kept,
\* and parsing the frames of a connection gives its events in the order the
\* frames were emitted.
C35_RoundTrip ==
    \A s \in Subs :
        LET events == DataEvents(frames[s]) IN
            /\ \A i \in DOMAIN events : \E j \in DOMAIN published : published[j] = events[i]
            /\ Received(s) = [i \in DOMAIN events |-> ParseOK(EventObject(events[i]), << >>)]

\* a connection has emitted two events, one replayed and one live, whose ids
\* hold a quote, a backslash or a blank line, and its client has parsed both
C35_Witness ==
    \E s \in Subs :
        /\ Len(frames[s]) >= 2
        /\ frames[s][1].kind = "data" /\ frames[s][1].from = "history"
        /\ frames[s][Len(frames[s])].kind = "data" /\ frames[s][Len(frames[s])].from = "live"
        /\ \E i \in DOMAIN frames[s] :
            /\ frames[s][i].kind = "data"
            /\ frames[s][i].event.conversation_id = << "c", "\n", "\n", "data: ", "x" >>
        /\ \E i \in DOMAIN frames[s] :
            /\ frames[s][i].kind = "data"
            /\ frames[s][i].event.project_id = << "\"", "}", ",", " " >>
        /\ Len(Received(s)) = 2
        /\ \A i \in 1 .. 2 : Received(s)[i].ok

\* C36: on one stream connection no published event is emitted as a data frame
\* more than once, whatever the interleaving of registration, replay and
\* broadcasts: two data frames of a connection never carry the same event.
C36_NoDuplicateFrame ==
    \A s \in Subs :
        \A i, j \in DOMAIN frames[s] :
            (i < j /\ frames[s][i].kind = "data" /\ frames[s][j].kind = "data")
                => frames[s][i].event.event_id # frames[s][j].event.event_id

\* ------------------------------------------------- ids with ':' and '*'
\* filter triples whose project_id or conversation_id holds a ':' or is '*'
KeyFilters ==
    { << << "a", ":", "b" >>, None, None >>,
      << Star, None, None >>,
      << << "p1" >>, None, None >>,
      << None, << "c", ":", "1" >>, None >> }

\* events of projects and conversations with such ids
KeyEnvelopes ==
    { [event_type |-> "chat.message", project_id |-> << "a", ":", "b" >>,
       conversation_id |-> << "c", ":", "1" >>, payload_model_name |-> None],
      [event_type |-> "chat.message", project_id |-> << "a" >>,
       conversation_id |-> << "b" >>, payload_model_name |-> None],
      [event_type |-> "chat.message", project_id |-> Star,
       conversation_id |-> None, payload_model_name |-> None],
      [event_type |-> "chat.message", project_id |-> << "p1" >>,
       conversation_id |-> << "c1" >>, payload_model_name |-> << "Gemini" >>] }

NextKeys ==
    \/ StartProcessor
    \/ \E envelope \in KeyEnvelopes : LogEvent(envelope)
    \/ ProcessSyncEventQueue
    \/ \E s \in Subs, f \in KeyFilters : RegisterStream(s, f[1], f[2], f[3])

SpecKeys == Init /\ [][NextKeys]_vars

\* the registry key a registered queue is listed under
KeyOf(s) == CHOOSE k \in DOMAIN streams : InSeq(s, streams[k])

\* the filter broadcast_event reads out of a registry key, '*' being unset
KeyFilter(stream_key) ==
    [i \in 1 .. 3 |->
        IF KeyPart(SplitColon(stream_key, 2), i) = Star
        THEN None ELSE KeyPart(SplitColon(stream_key, 2), i)]

\* a filter triple with every unset field written None
Wildcards(f) == [i \in 1 .. 3 |-> IF Truthy(f[i]) THEN f[i] ELSE None]

\* C37: the filter broadcast_event recovers by splitting the registry key is
\* the triple register_stream was given (unset = wildcard), also for an id
\* that holds ':' or is '*'; so a subscriber registered with only project_id
\* = P gets an event if and only if the event's project_id is P.
C37_KeyRoundTrip ==
    [][Broadcasting =>
         \A s \in Subs : Registered(s) =>
             /\ KeyFilter(KeyOf(s)) = Wildcards(RegisteredFilter(s))
             /\ (Truthy(RegisteredFilter(s)[1]) /\ ~Truthy(RegisteredFilter(s)[2])
                    /\ ~Truthy(RegisteredFilter(s)[3]))
                    => /\ NewEvent.project_id = RegisteredFilter(s)[1] => Got(s)
                       /\ NewEvent.project_id # RegisteredFilter(s)[1] => GotNothing(s)]_vars

\* ------------------------------------------- callers that mix up a filter
\* unregister_stream called for a registered queue with a triple that gives
\* another key than the one the queue was registered under
UnregisterStreamOther(s, project_id, conversation_id, model_name) ==
    /\ LoopFree
    /\ sub_pc[s] = "api"
    /\ get_stream_key(project_id, conversation_id, model_name)
           # get_stream_key(sub_filter[s][1], sub_filter[s][2], sub_filter[s][3])
    /\ streams' = unregister_stream(streams, project_id, conversation_id, s, model_name)
    /\ sub_pc' = [sub_pc EXCEPT ![s] = "leaked"]
    /\ UNCHANGED pvars
    /\ UNCHANGED << host, processor_task, all_events, sync_event_queue, queues,
                    sub_filter, sub_hist, frames, keepalives, next_event_id, published >>

\* GET /events: get_historical_events(project_id, conversation_id) and the
\* count of what it returned
GetEvents(project_id, conversation_id) ==
    /\ LoopFree
    /\ call' = [NoCall EXCEPT !.fn = "get_events"]
    /\ result' = [value |-> ToString(Len(get_historical_events(all_events, project_id,
                                                               conversation_id, None))),
                  raised |-> FALSE]
    /\ UNCHANGED provider_calls
    /\ UNCHANGED << bvars, runvars, gvars >>

NextMisuse ==
    \/ StartProcessor
    \/ \E envelope \in Envelopes : LogEventUpTo(envelope, MaxHandoff)
    \/ ProcessSyncEventQueue
    \/ \E s \in Subs, f \in Filters : RegisterStream(s, f[1], f[2], f[3])
    \/ \E s \in Subs : UnregisterStream(s)
    \/ \E s \in Subs, f \in Filters : UnregisterStreamOther(s, f[1], f[2], f[3])

SpecMisuse == Init /\ [][NextMisuse]_vars

\* The broadcaster with callers of the StreamManager API and of GET /events.
NextReads ==
    \/ StartProcessor
    \/ \E envelope \in Envelopes : LogEventUpTo(envelope, MaxHandoff)
    \/ ProcessSyncEventQueue
    \/ \E s \in Subs, f \in Filters : RegisterStream(s, f[1], f[2], f[3])
    \/ \E s \in Subs : UnregisterStream(s)
    \/ \E f \in Filters : GetEvents(f[1], f[2])

SpecReads == Init /\ [][NextReads]_vars

\* --------------------------------------------------------------- C38
\* every key of the registry lists at least one queue, and no queue is listed twice
RegistryOk ==
    /\ \A k \in DOMAIN streams : streams[k] # << >>
    /\ \A k, l \in DOMAIN streams : \A i \in DOMAIN streams[k], j \in DOMAIN streams[l] :
        streams[k][i] = streams[l][j] => (k = l /\ i = j)

\* get_historical_events returns in this step
ReadingHistory == call'.fn = "get_events" /\ << call, result >> # << call', result' >>

\* C38: after any sequence of register_stream, unregister_stream and
\* broadcast_event calls every key of the registry maps to a non-empty list of
\* queues and no queue appears twice in the registry; broadcast_event and
\* get_historical_events never add or remove a registry entry.
C38_RegistryShape ==
    [][/\ RegistryOk'
       /\ (Broadcasting \/ ReadingHistory) => streams' = streams]_vars

\* one queue was unregistered and its key, left without queues, is gone, the
\* other is still listed; an event was published and read back through GET /events
C38_Witness ==
    /\ sub_pc[1] = "closed"
    /\ sub_pc[2] = "api"
    /\ sub_filter[1] # sub_filter[2]
    /\ Cardinality(DOMAIN streams) = 1
    /\ Len(published) = 1
    /\ call.fn = "get_events"
    /\ result.value = "1"

\* --------------------------------------------------------------- C39
\* unregister_stream is called for registered queue s with another triple
Misfiling(s) == sub_pc[s] = "api" /\ sub_pc'[s] = "leaked"

\* C39: unregister_stream called for a registered queue with a filter triple
\* other than the one it was registered under leaves the registry unchanged
\* and raises nothing: the queue stays registered, and every later event that
\* matches its filter is still put on it.
C39_WrongTripleKeeps ==
    [][\A s \in Subs :
          /\ Misfiling(s) => (streams' = streams /\ Registered(s) /\ queues' = queues)
          /\ (Broadcasting /\ sub_pc[s] = "leaked") =>
                /\ Registered(s)
                /\ LenientModelMatch(RegisteredFilter(s), NewEvent) => Got(s)]_vars

\* a queue registered for the family gemini was unregistered without the
\* model name: it is still listed under its key and holds the event published
\* afterwards
C39_Witness ==
    \E s \in Subs :
        /\ sub_pc[s] = "leaked"
        /\ sub_filter[s] = << None, None, << "gemini" >> >>
        /\ Registered(s)
        /\ published # << >>
        /\ queues[s] = published

\* --------------------------------------------------------------- C40
\* model_used of the ProjectModificationResponse: mod_model at the return
model_used == run_model

\* a modify_project run has returned its response
ModifySucceeded == run_kind = "modify" /\ run_pc = "done" /\ run_result = "success"

\* C40: whenever modify_project returns success, the output parsed is that of
\* the last call of the run and model_used is the model of that call: the
\* model selected by complexity (the model of the first call) if the first
\* attempt or the stricter-prompt retry parsed, the main model of the family
\* if only the main-model fallback parsed.
C40_ModelUsed ==
    ModifySucceeded =>
        LET last == Len(run_calls) IN
            /\ Len(run_outcomes) = last
            /\ ParseOk(run_outcomes[last])
            /\ \A i \in 1 .. (last - 1) : ~ParseOk(run_outcomes[i])
            /\ model_used = run_calls[last].model
            /\ run_calls[last].attempt \in { "first", "strict" }
                   => model_used = run_calls[1].model
            /\ run_calls[last].attempt = "fallback"
                   => model_used = get_main_model(run_family)

\* a modification returned after its main-model fallback parsed, the first
\* call having been on another model
C40_Witness ==
    /\ ModifySucceeded
    /\ run_calls[Len(run_calls)].attempt = "fallback"
    /\ run_calls[1].model # get_main_model(run_family)
    /\ model_used = get_main_model(run_family)

====
